---- MODULE Spec2Model ----
(***************************************************************************)
(* Ultramemory: the tri-store coordinator (MemorySystem), the deleter, the *)
(* consolidator and the code indexer, over a Vector Index (Qdrant), a      *)
(* Graph (FalkorDB) and a cache (Redis).                                   *)
(***************************************************************************)
EXTENDS Integers, Sequences, FiniteSets, TLC

(***************************************************************************)
(* Texts.  A text is held in the state as a string; Chars gives its        *)
(* characters, on which the text functions of the code are computed.       *)
(***************************************************************************)

\* Contents a caller may add: one below min_content_length, two of 15
\* characters that differ in the last word, three of more than 20 characters
\* that differ in case, trailing space or the last character, and one that
\* names a person.
UserContents ==
  { "tiny note", "hello world one", "hello world two",
    "the quick brown fox jumps.", "the quick brown fox jumps!",
    "The quick brown fox jumps. ", "John Smith wrote this memo." }

\* _format_insights: the header and the date line of the insights document,
\* one per clock value (the distribution sections that follow them are left
\* out of the text).
InsightHandles ==
  <<"# Deep Insights Generados\n\nFecha: 1\n",
    "# Deep Insights Generados\n\nFecha: 2\n",
    "# Deep Insights Generados\n\nFecha: 3\n",
    "# Deep Insights Generados\n\nFecha: 4\n",
    "# Deep Insights Generados\n\nFecha: 5\n",
    "# Deep Insights Generados\n\nFecha: 6\n">>

_format_insights(t) == InsightHandles[t]

InsightContents == { InsightHandles[t] : t \in 1..Len(InsightHandles) }

\* The files of the repository the code indexer is run on, in the order
\* get_file_list enumerates them, and their content after each commit.
get_file_list == <<"a.py", "b.py">>

Files == {"a.py", "b.py"}

get_file_content(f, sha) ==
  CASE f = "a.py" /\ sha = 1 -> "def a(): return 1"
    [] f = "a.py" /\ sha # 1 -> "def a(): return 2"
    [] f = "b.py" /\ sha = 1 -> "def b(): return 1"
    [] OTHER -> "def b(): return 2"

FileContents ==
  { "def a(): return 1", "def a(): return 2",
    "def b(): return 1", "def b(): return 2" }

\* Three contents of more than 20 characters for the fuzzy purge: the first
\* two are similar, the last two are similar, the first and the last are not.
PurgeContents ==
  { "the quick brown fox jumps.", "the quick brown fox jumps!",
    "the quick brown cat sleeps!" }

Contents == UserContents \cup InsightContents \cup FileContents \cup PurgeContents

\* Query texts a caller may issue.
QueryTexts == { "Hello ", "hello" }

\* Names the entity patterns find in Contents.
EntityNames == { "John Smith", "Deep Insights" }

Chars(t) ==
  CASE
     t = "tiny note" ->
       <<"t", "i", "n", "y", " ", "n", "o", "t", "e">>
  [] t = "hello world one" ->
       <<"h", "e", "l", "l", "o", " ", "w", "o", "r", "l", "d", " ", "o", "n", "e">>
  [] t = "hello world two" ->
       <<"h", "e", "l", "l", "o", " ", "w", "o", "r", "l", "d", " ", "t", "w", "o">>
  [] t = "the quick brown fox jumps." ->
       <<"t", "h", "e", " ", "q", "u", "i", "c", "k", " ", "b", "r", "o", "w", "n", " ", "f", "o", "x", " ", "j", "u", "m", "p", "s", ".">>
  [] t = "the quick brown fox jumps!" ->
       <<"t", "h", "e", " ", "q", "u", "i", "c", "k", " ", "b", "r", "o", "w", "n", " ", "f", "o", "x", " ", "j", "u", "m", "p", "s", "!">>
  [] t = "The quick brown fox jumps. " ->
       <<"T", "h", "e", " ", "q", "u", "i", "c", "k", " ", "b", "r", "o", "w", "n", " ", "f", "o", "x", " ", "j", "u", "m", "p", "s", ".", " ">>
  [] t = "John Smith wrote this memo." ->
       <<"J", "o", "h", "n", " ", "S", "m", "i", "t", "h", " ", "w", "r", "o", "t", "e", " ", "t", "h", "i", "s", " ", "m", "e", "m", "o", ".">>
  [] t = "# Deep Insights Generados\n\nFecha: 1\n" ->
       <<"#", " ", "D", "e", "e", "p", " ", "I", "n", "s", "i", "g", "h", "t", "s", " ", "G", "e", "n", "e", "r", "a", "d", "o", "s", "\n", "\n", "F", "e", "c", "h", "a", ":", " ", "1", "\n">>
  [] t = "# Deep Insights Generados\n\nFecha: 2\n" ->
       <<"#", " ", "D", "e", "e", "p", " ", "I", "n", "s", "i", "g", "h", "t", "s", " ", "G", "e", "n", "e", "r", "a", "d", "o", "s", "\n", "\n", "F", "e", "c", "h", "a", ":", " ", "2", "\n">>
  [] t = "# Deep Insights Generados\n\nFecha: 3\n" ->
       <<"#", " ", "D", "e", "e", "p", " ", "I", "n", "s", "i", "g", "h", "t", "s", " ", "G", "e", "n", "e", "r", "a", "d", "o", "s", "\n", "\n", "F", "e", "c", "h", "a", ":", " ", "3", "\n">>
  [] t = "# Deep Insights Generados\n\nFecha: 4\n" ->
       <<"#", " ", "D", "e", "e", "p", " ", "I", "n", "s", "i", "g", "h", "t", "s", " ", "G", "e", "n", "e", "r", "a", "d", "o", "s", "\n", "\n", "F", "e", "c", "h", "a", ":", " ", "4", "\n">>
  [] t = "# Deep Insights Generados\n\nFecha: 5\n" ->
       <<"#", " ", "D", "e", "e", "p", " ", "I", "n", "s", "i", "g", "h", "t", "s", " ", "G", "e", "n", "e", "r", "a", "d", "o", "s", "\n", "\n", "F", "e", "c", "h", "a", ":", " ", "5", "\n">>
  [] t = "# Deep Insights Generados\n\nFecha: 6\n" ->
       <<"#", " ", "D", "e", "e", "p", " ", "I", "n", "s", "i", "g", "h", "t", "s", " ", "G", "e", "n", "e", "r", "a", "d", "o", "s", "\n", "\n", "F", "e", "c", "h", "a", ":", " ", "6", "\n">>
  [] t = "Hello " ->
       <<"H", "e", "l", "l", "o", " ">>
  [] t = "hello" ->
       <<"h", "e", "l", "l", "o">>
  [] t = "unknown" ->
       <<"u", "n", "k", "n", "o", "w", "n">>
  [] t = "John Smith" ->
       <<"J", "o", "h", "n", " ", "S", "m", "i", "t", "h">>
  [] t = "Deep Insights" ->
       <<"D", "e", "e", "p", " ", "I", "n", "s", "i", "g", "h", "t", "s">>
  [] t = "a.py" ->
       <<"a", ".", "p", "y">>
  [] t = "b.py" ->
       <<"b", ".", "p", "y">>
  [] t = "def a(): return 1" ->
       <<"d", "e", "f", " ", "a", "(", ")", ":", " ", "r", "e", "t", "u", "r", "n", " ", "1">>
  [] t = "def a(): return 2" ->
       <<"d", "e", "f", " ", "a", "(", ")", ":", " ", "r", "e", "t", "u", "r", "n", " ", "2">>
  [] t = "def b(): return 1" ->
       <<"d", "e", "f", " ", "b", "(", ")", ":", " ", "r", "e", "t", "u", "r", "n", " ", "1">>
  [] t = "def b(): return 2" ->
       <<"d", "e", "f", " ", "b", "(", ")", ":", " ", "r", "e", "t", "u", "r", "n", " ", "2">>
  [] t = "the quick brown cat sleeps!" ->
       <<"t", "h", "e", " ", "q", "u", "i", "c", "k", " ", "b", "r", "o", "w", "n", " ", "c", "a", "t", " ", "s", "l", "e", "e", "p", "s", "!">>

(***************************************************************************)
(* Character classes and the str and re operations the code uses.          *)
(***************************************************************************)
LowerLetters == <<"a","b","c","d","e","f","g","h","i","j","k","l","m",
                  "n","o","p","q","r","s","t","u","v","w","x","y","z">>
UpperLetters == <<"A","B","C","D","E","F","G","H","I","J","K","L","M",
                  "N","O","P","Q","R","S","T","U","V","W","X","Y","Z">>
Digits == {"0","1","2","3","4","5","6","7","8","9"}
Whitespace == {" ", "\n", "\t", "\r"}

Range(s) == { s[i] : i \in 1..Len(s) }
IsLower(ch) == ch \in Range(LowerLetters)
IsUpper(ch) == ch \in Range(UpperLetters)
IsAlpha(ch) == IsLower(ch) \/ IsUpper(ch)
\* \w of the re module
IsWord(ch) == IsAlpha(ch) \/ ch \in Digits \/ ch = "_"
\* \s of the re module
IsSpace(ch) == ch \in Whitespace

\* str.lower on one character
LowerChar(ch) ==
  IF IsUpper(ch)
  THEN LowerLetters[CHOOSE i \in 1..26 : UpperLetters[i] = ch]
  ELSE ch

\* str.lower
lower(s) == [i \in 1..Len(s) |-> LowerChar(s[i])]

\* str.strip
strip(s) ==
  LET idx == { i \in 1..Len(s) : ~IsSpace(s[i]) }
  IN IF idx = {} THEN <<>>
     ELSE LET lo == CHOOSE i \in idx : \A j \in idx : i <= j
              hi == CHOOSE i \in idx : \A j \in idx : i >= j
          IN SubSeq(s, lo, hi)

\* re.sub(r'\s+', ' ', s)
RECURSIVE collapse_ws(_)
collapse_ws(s) ==
  IF s = <<>> THEN <<>>
  ELSE IF IsSpace(Head(s))
       THEN IF Len(s) > 1 /\ IsSpace(s[2])
            THEN collapse_ws(Tail(s))
            ELSE <<" ">> \o collapse_ws(Tail(s))
       ELSE <<Head(s)>> \o collapse_ws(Tail(s))

\* s CONTAINS q (Cypher); q in s (Python)
Contains(s, q) ==
  \E i \in 0..(Len(s) - Len(q)) : SubSeq(s, i + 1, i + Len(q)) = q

\* \b at the gap before position i (1 <= i <= Len(s) + 1)
WordBoundary(s, i) ==
  LET before == i > 1 /\ IsWord(s[i - 1])
      after == i <= Len(s) /\ IsWord(s[i])
  IN before # after

\* re.findall(r'\b[a-zA-Z]{4,}\b', s): the runs of word characters that are
\* letters only and at least four long
LetterWords4(s) ==
  { SubSeq(s, i, j) : <<i, j>> \in
      { p \in (1..Len(s)) \X (1..Len(s)) :
          /\ p[1] + 3 <= p[2]
          /\ \A k \in p[1]..p[2] : IsAlpha(s[k])
          /\ WordBoundary(s, p[1])
          /\ WordBoundary(s, p[2] + 1) } }

\* FalkorDBClient._extract_keywords: the stopword set
GraphStopwords ==
  { <<"t","h","i","s">>, <<"t","h","a","t">>, <<"w","i","t","h">>,
    <<"f","r","o","m">>, <<"h","a","v","e">>, <<"b","e","e","n">>,
    <<"w","e","r","e">>, <<"t","h","e","y">>, <<"t","h","e","i","r">>,
    <<"w","h","i","c","h">>, <<"w","o","u","l","d">>, <<"c","o","u","l","d">>,
    <<"s","h","o","u","l","d">>, <<"t","h","e","r","e">>, <<"w","h","e","r","e">>,
    <<"w","h","e","n">>, <<"w","h","a","t">>, <<"m","o","r","e">>,
    <<"a","l","s","o">> }

\* FalkorDBClient._extract_keywords
_extract_keywords(s) == LetterWords4(lower(s)) \ GraphStopwords

\* The end of a match of [A-Z][a-z]+ that starts at i and is not followed by
\* a lower-case letter; 0 when there is none.
CapWordEnd(s, i) ==
  IF i + 1 <= Len(s) /\ IsUpper(s[i]) /\ IsLower(s[i + 1])
  THEN CHOOSE j \in (i + 1)..Len(s) :
         /\ \A k \in (i + 1)..j : IsLower(s[k])
         /\ (j = Len(s) \/ ~IsLower(s[j + 1]))
  ELSE 0

\* The end of a match of \s+ that starts at i; 0 when there is none.
SpacesEnd(s, i) ==
  IF i <= Len(s) /\ IsSpace(s[i])
  THEN CHOOSE j \in i..Len(s) :
         /\ \A k \in i..j : IsSpace(s[k])
         /\ (j = Len(s) \/ ~IsSpace(s[j + 1]))
  ELSE 0

\* ENTITY_PATTERNS["person"][0], r'\b([A-Z][a-z]+ [A-Z][a-z]+)\b', matched at
\* i: the end of the match, 0 when it does not match there.
PersonMatchEnd(s, i) ==
  LET e1 == CapWordEnd(s, i)
      e2 == IF e1 > 0 /\ e1 + 1 <= Len(s) /\ s[e1 + 1] = " "
            THEN CapWordEnd(s, e1 + 2) ELSE 0
  IN IF WordBoundary(s, i) /\ e2 > 0 /\ WordBoundary(s, e2 + 1) THEN e2 ELSE 0

RECURSIVE PersonScan(_, _)
\* re.findall of the person pattern from position i on: leftmost matches
\* that do not overlap
PersonScan(s, i) ==
  IF i > Len(s) THEN {}
  ELSE LET e == PersonMatchEnd(s, i)
       IN IF e > 0 THEN {SubSeq(s, i, e)} \cup PersonScan(s, e + 1)
          ELSE PersonScan(s, i + 1)

\* ConsolidatorAgent._extract_entities: the persons of a text.  No text of
\* the model holds a title (Mr., Dr.), a company or a project, so the other
\* five patterns of ENTITY_PATTERNS match nothing.
_extract_entities(s) == PersonScan(s, 1)

\* MemorySystem._extract_named_entities finds a person: people_pattern,
\* r'\b([A-Z][a-z]+\s+[A-Z][a-z]+(?:\s+[A-Z][a-z]+)?)\b', matches somewhere.
HasPeople(s) ==
  \E i \in 1..Len(s) :
    LET e1 == CapWordEnd(s, i)
        sp == IF e1 > 0 THEN SpacesEnd(s, e1 + 1) ELSE 0
        e2 == IF sp > 0 THEN CapWordEnd(s, sp + 1) ELSE 0
    IN WordBoundary(s, i) /\ e2 > 0 /\ WordBoundary(s, e2 + 1)

(***************************************************************************)
(* difflib.SequenceMatcher(None, a, b).ratio() for texts shorter than 200  *)
(* characters (no junk, no popular-element heuristic).                     *)
(***************************************************************************)
RECURSIVE RunLen(_, _, _, _, _, _)
\* length of the common run of a[i..ahi] and b[j..bhi] that starts at i, j
RunLen(a, b, i, j, ahi, bhi) ==
  IF i > ahi \/ j > bhi THEN 0
  ELSE IF a[i] # b[j] THEN 0
  ELSE 1 + RunLen(a, b, i + 1, j + 1, ahi, bhi)

\* find_longest_match: the longest block, the earliest in a, then in b
find_longest_match(a, b, alo, ahi, blo, bhi) ==
  LET Cand == { p \in (alo..ahi) \X (blo..bhi) : a[p[1]] = b[p[2]] }
      size(p) == RunLen(a, b, p[1], p[2], ahi, bhi)
      best == IF Cand = {} THEN 0
              ELSE CHOOSE k \in 1..(ahi - alo + 1) :
                     /\ \E p \in Cand : size(p) = k
                     /\ \A p \in Cand : size(p) <= k
      Top == { p \in Cand : size(p) = best }
      bi == CHOOSE i \in { p[1] : p \in Top } : \A p \in Top : i <= p[1]
      TopI == { p \in Top : p[1] = bi }
      bj == CHOOSE j \in { p[2] : p \in TopI } : \A p \in TopI : j <= p[2]
  IN IF best = 0 THEN <<alo, blo, 0>> ELSE <<bi, bj, best>>

RECURSIVE matching_size(_, _, _, _, _, _)
\* the sum of the sizes of get_matching_blocks in a[alo..ahi], b[blo..bhi]
matching_size(a, b, alo, ahi, blo, bhi) ==
  IF alo > ahi \/ blo > bhi THEN 0
  ELSE CHOOSE n \in
         { IF m[3] = 0 THEN 0
           ELSE m[3]
                + matching_size(a, b, alo, m[1] - 1, blo, m[2] - 1)
                + matching_size(a, b, m[1] + m[3], ahi, m[2] + m[3], bhi)
           : m \in {find_longest_match(a, b, alo, ahi, blo, bhi)} } : TRUE

\* ratio() >= num / den, where ratio() is 2.0 * matches / (len(a) + len(b))
\* and 1.0 for two empty texts
ratio_at_least(a, b, num, den) ==
  IF Len(a) + Len(b) = 0 THEN TRUE
  ELSE 2 * matching_size(a, b, 1, Len(a), 1, Len(b)) * den
         >= num * (Len(a) + Len(b))

(***************************************************************************)
(* FalkorDBClient.add_node: what becomes of a content on its way into the  *)
(* graph.  The texts of the model are ASCII.                               *)
(***************************************************************************)
\* characters with code < 32 other than tab, newline and carriage return
ControlChars == {"\f"}

BinaryHeaders == { <<"M","Z">>, <<"G","I","F","8","7">>, <<"G","I","F","8","9">>,
                   <<"%","P","D","F">> }

\* _is_binary_content, on the first 1000 characters
_is_binary_content(s) ==
  LET sample == SubSeq(s, 1, IF Len(s) < 1000 THEN Len(s) ELSE 1000)
      non_printable == Cardinality({ i \in 1..Len(sample) : sample[i] \in ControlChars })
  IN /\ s # <<>>
     /\ \/ non_printable * 10 > Len(sample)
        \/ \E h \in BinaryHeaders :
             Len(h) <= Len(sample) /\ SubSeq(sample, 1, Len(h)) = h

BinaryPlaceholder ==
  <<"[","B","i","n","a","r","y"," ","c","o","n","t","e","n","t"," ","-"," ",
    "n","o","t"," ","s","t","o","r","e","d"," ","i","n"," ","g","r","a","p","h","]">>

RECURSIVE Flatten(_)
\* the concatenation of the sequences of ss
Flatten(ss) == IF ss = <<>> THEN <<>> ELSE Head(ss) \o Flatten(Tail(ss))

\* content_preview: the first 500 characters, control characters as spaces,
\* then backslash, quotes and newline escaped and carriage return dropped
PreviewChar(ch) ==
  CASE ch \in ControlChars -> <<" ">>
    [] ch = "\\" -> <<"\\", "\\">>
    [] ch = "'" -> <<"\\", "'">>
    [] ch = "\"" -> <<"\\", "\"">>
    [] ch = "\n" -> <<"\\", "n">>
    [] ch = "\r" -> <<>>
    [] OTHER -> <<ch>>

content_preview(s) ==
  IF _is_binary_content(s) THEN BinaryPlaceholder
  ELSE LET head == SubSeq(s, 1, IF Len(s) < 500 THEN Len(s) ELSE 500)
       IN Flatten([i \in 1..Len(head) |-> PreviewChar(head[i])])

\* v_str of props_list: backslash, double quote and newline escaped again
PropChar(ch) ==
  CASE ch = "\\" -> <<"\\", "\\">>
    [] ch = "\"" -> <<"\\", "\"">>
    [] ch = "\n" -> <<"\\", "n">>
    [] OTHER -> <<ch>>

RECURSIVE cypher_unescape(_)
\* the value GRAPH.QUERY reads from a double-quoted string literal
cypher_unescape(s) ==
  IF s = <<>> THEN <<>>
  ELSE IF Head(s) = "\\" /\ Len(s) > 1
       THEN <<IF s[2] = "n" THEN "\n" ELSE s[2]>> \o cypher_unescape(Tail(Tail(s)))
       ELSE <<Head(s)>> \o cypher_unescape(Tail(s))

\* the content property of the node that add_node merges
node_content(s) ==
  LET preview == content_preview(s)
  IN cypher_unescape(Flatten([i \in 1..Len(preview) |-> PropChar(preview[i])]))

(***************************************************************************)
(* Bounds of the model.                                                    *)
(***************************************************************************)
\* Latest clock value at which a caller's add may start.
MaxClock == 2
\* Latest clock value at which a consolidation may start.
MaxRunClock == 3
\* Longest deletions log.
MaxAudit == 1

(***************************************************************************)
(* Program constants.                                                      *)
(***************************************************************************)
min_content_length == 10
\* _find_fuzzy_duplicates indexes a content only if len(content) > 20
FuzzyMinLen == 20

(***************************************************************************)
(* The text functions, tabulated over the texts of the model: a function   *)
(* merged with the empty function is held as a table of its values.        *)
(***************************************************************************)
\* len(content)
ContentLen ==
  [c \in Contents |->
     Len(Chars(c))] @@ <<>>

\* content.strip().lower(), the text whose hash() groups exact duplicates
\* (two texts have one hash exactly when they are equal)
ExactKey ==
  [c \in Contents |->
     lower(strip(Chars(c)))] @@ <<>>

\* re.sub(r'\s+', ' ', content.strip().lower())
Normalized ==
  [c \in Contents |->
     collapse_ws(lower(strip(Chars(c))))] @@ <<>>

\* SequenceMatcher(None, a, b).ratio() >= self.fuzzy_threshold (0.75)
FuzzySimilar ==
  [p \in Contents \X Contents |->
     ratio_at_least(Normalized[p[1]], Normalized[p[2]], 3, 4)] @@ <<>>

\* the content property that add_node stores for a content
StoredContent ==
  [c \in Contents |->
     node_content(Chars(c))] @@ <<>>

\* the keywords of a node's content
Keywords ==
  [c \in Contents |->
     _extract_keywords(StoredContent[c])] @@ <<>>

\* the entity names of a content, as names
NameOf(s) == CHOOSE n \in EntityNames : Chars(n) = s
Persons ==
  [c \in Contents |->
     { NameOf(s) : s \in _extract_entities(Chars(c)) }] @@ <<>>

\* add builds the label string ":".join(labels) with the entity labels
\* "Person:{name}"; a person's name holds white space, and GRAPH.QUERY
\* rejects a label that does.
HasEntityLabels ==
  [c \in Contents |->
     HasPeople(Chars(c))] @@ <<>>

(***************************************************************************)
(* Ids, documents, graph nodes and edges, cache keys.                      *)
(***************************************************************************)
NoId == [k |-> "none", n |-> 0, h |-> ""]
\* str(uuid.uuid4()): a fresh id; the n-th one issued
Uuid(n) == [k |-> "uuid", n |-> n, h |-> ""]
\* f"doc_{hash(content) % 1000000}"
HashId(c) == [k |-> "doc_", n |-> 0, h |-> c]
\* the literal "unknown" that add uses in cache keys
UnknownId == [k |-> "unknown", n |-> 0, h |-> ""]

\* The metadata fields the operations read.
NoMeta ==
  [type |-> "", repo_owner |-> "", repo_name |-> "", file_path |-> "",
   last_modified_commit |-> 0]

\* A Document node and an entity node of the graph.  A node's content field
\* names the content it was built from; StoredContent gives the property.
DocNode(id, c, t) ==
  [id |-> id, content |-> c, created_at |-> t,
   label |-> "Document", name |-> ""]
EntityNode(label, name) ==
  [id |-> NoId, content |-> "", created_at |-> 0, label |-> label, name |-> name]

Edge(a, b, type) == [src |-> a, dst |-> b, type |-> type]

\* The backends as one operation finds them.
Envs == [vec_read : BOOLEAN, vec_write : BOOLEAN, graph : BOOLEAN, cache : BOOLEAN]
Healthy == [vec_read |-> TRUE, vec_write |-> TRUE, graph |-> TRUE, cache |-> TRUE]

VARIABLES
  clock,            \* the number of ids and timestamps issued so far
  vec,              \* Vector Index: id -> [content, meta]
  nodes,            \* Graph: the set of nodes
  edges,            \* Graph: edge -> how many of it there are
  cache,            \* Redis: [doc: id -> content, query: key -> results,
                    \*   doc_entities: id -> json, entity_docs: entity -> json]
  document_hashes,  \* ConsolidatorAgent._document_hashes
  audit,            \* deletions.jsonl
  repo,             \* the repository: file -> its last commit
  index_run,        \* CodeIndexerAgent.index: the run in progress or last made
  op,               \* the last operation, its arguments and environment
  ret               \* what it returned

vars ==
  <<clock, vec, nodes, edges, cache, document_hashes, audit, repo, index_run,
    op, ret>>

\* The three stores and the clock, as one value that the operations map.
Store == [clock |-> clock, vec |-> vec, nodes |-> nodes, edges |-> edges,
          cache |-> cache]

SetStore(s) ==
  /\ clock' = s.clock
  /\ vec' = s.vec
  /\ nodes' = s.nodes
  /\ edges' = s.edges
  /\ cache' = s.cache

(***************************************************************************)
(* Functions and bags.                                                     *)
(***************************************************************************)
Put(f, k, v) == [x \in DOMAIN f \cup {k} |-> IF x = k THEN v ELSE f[x]]
Drop(f, ks) == [x \in DOMAIN f \ ks |-> f[x]]

\* k more of each edge of E
BagAdd(B, E, k) ==
  [e \in DOMAIN B \cup E |->
     (IF e \in DOMAIN B THEN B[e] ELSE 0) + (IF e \in E THEN k ELSE 0)]

\* a DELETE that removes the nodes N and leaves their edges
DeleteNodesOnly(s, N) == [s EXCEPT !.nodes = s.nodes \ N]

\* DETACH DELETE of the nodes N
DetachDelete(s, N) ==
  [s EXCEPT !.nodes = s.nodes \ N,
            !.edges = Drop(s.edges, { e \in DOMAIN s.edges :
                                        e.src \in N \/ e.dst \in N })]

NodesWithId(s, id) == { n \in s.nodes : n.id = id }

(***************************************************************************)
(* MemorySystem.add                                                        *)
(***************************************************************************)
\* FalkorDBClient.add_node through FalkorDBClient.execute: MERGE of a node
\* with these properties.  execute swallows every error and add_node
\* returns True: an unreachable graph or a rejected query leaves the graph
\* as it was.
add_node(s, id, c, t, env, labels_ok) ==
  IF env.graph /\ labels_ok
  THEN [s EXCEPT !.nodes = s.nodes \cup {DocNode(id, c, t)}]
  ELSE s

\* add whose cache step is not guarded: a failing cache call is reported
\* among the errors and costs the "full" status
memory_add_cache_reported(s, content, meta, labels, env) ==
  LET now == s.clock + 1
      qdrant_id == IF env.vec_write THEN Uuid(now) ELSE NoId
      s1 == IF env.vec_write
            THEN [s EXCEPT !.clock = now,
                           !.vec = Put(s.vec, Uuid(now),
                                       [content |-> content, meta |-> meta])]
            ELSE [s EXCEPT !.clock = now]
      graph_raises == labels = "tuple" /\ HasEntityLabels[content]
      entity_id == IF qdrant_id # NoId THEN qdrant_id ELSE HashId(content)
      s2 == IF graph_raises THEN s1
            ELSE add_node(s1, entity_id, content, now, env,
                          ~HasEntityLabels[content])
      falkordb_id == IF graph_raises THEN NoId ELSE entity_id
      doc_id == IF qdrant_id # NoId THEN qdrant_id ELSE UnknownId
      s3 == IF env.cache
            THEN [s2 EXCEPT !.cache.doc = Put(s2.cache.doc, doc_id, content)]
            ELSE s2
      errors == (IF qdrant_id = NoId THEN <<"Qdrant">> ELSE <<>>)
                \o (IF graph_raises THEN <<"FalkorDB">> ELSE <<>>)
                \o (IF env.cache THEN <<>> ELSE <<"Redis">>)
      status == IF qdrant_id # NoId /\ falkordb_id # NoId /\ env.cache
                THEN "full" ELSE "partial"
  IN IF ~env.vec_read
     THEN [store |-> s,
           ret |-> [raised |-> TRUE, qdrant_id |-> NoId, falkordb_id |-> NoId,
                    status |-> "", errors |-> <<>>]]
     ELSE [store |-> s3,
           ret |-> [raised |-> FALSE, qdrant_id |-> qdrant_id,
                    falkordb_id |-> falkordb_id, status |-> status,
                    errors |-> errors]]

\* add(content, metadata): the store after it and what it returns.  labels
\* is "list" or "tuple", the type of metadata["labels"].
memory_add(s, content, meta, labels, env) ==
  LET now == s.clock + 1
      \* 3. qdrant.add
      qdrant_id == IF env.vec_write THEN Uuid(now) ELSE NoId
      s1 == IF env.vec_write
            THEN [s EXCEPT !.clock = now,
                           !.vec = Put(s.vec, Uuid(now),
                                       [content |-> content, meta |-> meta])]
            ELSE [s EXCEPT !.clock = now]
      \* 4. labels.extend(entity_labels[:3]) raises on a tuple
      graph_raises == labels = "tuple" /\ HasEntityLabels[content]
      entity_id == IF qdrant_id # NoId THEN qdrant_id ELSE HashId(content)
      s2 == IF graph_raises THEN s1
            ELSE add_node(s1, entity_id, content, now, env,
                          ~HasEntityLabels[content])
      falkordb_id == IF graph_raises THEN NoId ELSE entity_id
      \* 6. redis.set(f"doc:{doc_id}", content)
      doc_id == IF qdrant_id # NoId THEN qdrant_id ELSE UnknownId
      s3 == IF env.cache
            THEN [s2 EXCEPT !.cache.doc = Put(s2.cache.doc, doc_id, content)]
            ELSE s2
      errors == (IF qdrant_id = NoId THEN <<"Qdrant">> ELSE <<>>)
                \o (IF graph_raises THEN <<"FalkorDB">> ELSE <<>>)
      status == IF qdrant_id # NoId /\ falkordb_id # NoId THEN "full"
                ELSE "partial"
  IN IF ~env.vec_read
     THEN \* 1. ensure_collection raises, and so does add
          [store |-> s,
           ret |-> [raised |-> TRUE, qdrant_id |-> NoId, falkordb_id |-> NoId,
                    status |-> "", errors |-> <<>>]]
     ELSE [store |-> s3,
           ret |-> [raised |-> FALSE, qdrant_id |-> qdrant_id,
                    falkordb_id |-> falkordb_id, status |-> status,
                    errors |-> errors]]

\* an add made while the clock is below bound
AddWithin(bound, content, labels, env) ==
  /\ clock < bound
  /\ LET r == memory_add(Store, content, NoMeta, labels, env)
     IN /\ SetStore(r.store)
        /\ ret' = r.ret
  /\ op' = [name |-> "add", content |-> content, labels |-> labels, env |-> env]
  /\ UNCHANGED <<document_hashes, audit, repo, index_run>>

Add(content, labels, env) == AddWithin(MaxClock, content, labels, env)

(***************************************************************************)
(* MemorySystem.query                                                      *)
(***************************************************************************)
\* A query text: one a caller types, or one of the two the code indexer
\* formats, f"repo_owner:{owner} repo_name:{repo_name} file_path:{file_path}"
\* for the one repository of the model and f"id:{doc_id}".
TextQuery(t) == [kind |-> "text", text |-> t, id |-> NoId]
FileQuery(f) == [kind |-> "file", text |-> f, id |-> NoId]
IdQuery(id) == [kind |-> "id", text |-> "", id |-> id]

\* _get_query_cache_key: md5 of query_text.lower().strip() (two texts have
\* one key exactly when their normalised texts are equal)
_get_query_cache_key(q) ==
  [kind |-> q.kind,
   norm |-> IF q.kind = "id" THEN <<>> ELSE lower(strip(Chars(q.text))),
   id |-> q.id]

\* search_nodes: n.content CONTAINS q OR n.source CONTAINS q; add_node sets
\* source to "unknown" when the metadata has none.
GraphHit(n, q) ==
  /\ q.kind = "text"
  /\ n.label = "Document"
  /\ \/ Contains(StoredContent[n.content], Chars(q.text))
     \/ Contains(Chars("unknown"), Chars(q.text))

\* The subsets of S that a LIMIT k may return.
Limited(S, k) ==
  IF Cardinality(S) <= k THEN {S}
  ELSE { T \in SUBSET S : Cardinality(T) = k }

\* qdrant.search: the limit nearest documents; which they are is up to the
\* embeddings, which the model leaves open.
VectorResults(s, limit, env) ==
  IF env.vec_read
  THEN { { [id |-> id, content |-> s.vec[id].content, meta |-> s.vec[id].meta]
           : id \in T } : T \in Limited(DOMAIN s.vec, limit) }
  ELSE {{}}

\* falkordb.search_nodes behind falkordb.health_check
GraphResults(s, q, limit, env) ==
  IF env.graph
  THEN { { [id |-> n.id, content |-> n.content] : n \in T }
         : T \in Limited({ n \in s.nodes : GraphHit(n, q) }, limit) }
  ELSE {{}}

\* query that hands a cached payload back as it was stored, cache_hit false
memory_query_unmarked(s, q, use_cache, env, vr, gr) ==
  LET key == _get_query_cache_key(q)
      results == [vector_results |-> vr, graph_results |-> gr,
                  cache_hit |-> FALSE]
  IN IF use_cache /\ env.cache /\ key \in DOMAIN s.cache.query
     THEN [store |-> s, ret |-> s.cache.query[key]]
     ELSE [store |-> IF use_cache /\ env.cache
                     THEN [s EXCEPT !.cache.query = Put(s.cache.query, key, results)]
                     ELSE s,
           ret |-> results]

\* query(query_text, limit, use_cache) with the results vr and gr of the two
\* searches: the store after it and what it returns.
memory_query(s, q, use_cache, env, vr, gr) ==
  LET key == _get_query_cache_key(q)
      hit == use_cache /\ env.cache /\ key \in DOMAIN s.cache.query
      results == [vector_results |-> vr, graph_results |-> gr,
                  cache_hit |-> FALSE]
  IN IF hit
     THEN [store |-> s,
           ret |-> [s.cache.query[key] EXCEPT !.cache_hit = TRUE]]
     ELSE [store |-> IF use_cache /\ env.cache
                     THEN [s EXCEPT !.cache.query = Put(s.cache.query, key, results)]
                     ELSE s,
           ret |-> results]

Limits == {1, 5}

Query(t, limit, use_cache, env) ==
  /\ \E vr \in VectorResults(Store, limit, env) :
     \E gr \in GraphResults(Store, TextQuery(t), limit, env) :
       LET r == memory_query(Store, TextQuery(t), use_cache, env, vr, gr)
       IN /\ SetStore(r.store)
          /\ ret' = r.ret
  /\ op' = [name |-> "query", text |-> t, limit |-> limit,
            use_cache |-> use_cache, env |-> env]
  /\ UNCHANGED <<document_hashes, audit, repo, index_run>>

\* A query cache entry reaches its TTL.
Expire(key) ==
  /\ key \in DOMAIN cache.query
  /\ cache' = [cache EXCEPT !.query = Drop(cache.query, {key})]
  /\ op' = [name |-> "expire"]
  /\ ret' = [status |-> ""]
  /\ UNCHANGED <<clock, vec, nodes, edges, document_hashes, audit, repo, index_run>>

(***************************************************************************)
(* DeleterAgent.delete_by_id                                               *)
(***************************************************************************)
\* FalkorDBClient.get_node_relationships: MATCH (n {id})-[r]->(m)
get_node_relationships(s, id, env) ==
  IF env.graph THEN { e \in DOMAIN s.edges : e.src.id = id } ELSE {}

\* _check_connections: the graphiti fallback, get_neighbors, is not a method
\* of GraphitiClient, so it raises and the answer is False
_check_connections(s, id, env) == get_node_relationships(s, id, env) # {}

delete_by_id(s, log, id, preserve_connections, env) ==
  IF preserve_connections /\ _check_connections(s, id, env)
  THEN [store |-> s, audit |-> log,
        ret |-> [status |-> "blocked", id |-> id, qdrant_deleted |-> FALSE,
                 falkordb_deleted |-> FALSE]]
  ELSE LET s1 == IF env.vec_write
                 THEN [s EXCEPT !.vec = Drop(s.vec, {id})] ELSE s
           s2 == IF env.graph THEN DetachDelete(s1, NodesWithId(s1, id)) ELSE s1
       IN [store |-> s2,
           audit |-> Append(log, [type |-> "delete_by_id", deleted_id |-> id,
                                  qdrant |-> env.vec_write, falkordb |-> TRUE]),
           ret |-> [status |-> "success", id |-> id,
                    qdrant_deleted |-> env.vec_write,
                    falkordb_deleted |-> TRUE]]

\* The ids a caller can know of.
KnownIds == ({ Uuid(n) : n \in 1..clock } \cup { n.id : n \in nodes }) \ {NoId}

DeleteById(id, preserve_connections, env) ==
  /\ Len(audit) < MaxAudit
  /\ LET r == delete_by_id(Store, audit, id, preserve_connections, env)
     IN /\ SetStore(r.store)
        /\ audit' = r.audit
        /\ ret' = r.ret
  /\ op' = [name |-> "delete_by_id", id |-> id,
            preserve_connections |-> preserve_connections]
  /\ UNCHANGED <<document_hashes, repo, index_run>>

(***************************************************************************)
(* ConsolidatorAgent.consolidate                                           *)
(***************************************************************************)
Min(a, b) == IF a < b THEN a ELSE b
Max(a, b) == IF a > b THEN a ELSE b

RECURSIVE SortedIds(_)
\* the ids of S in the order of a scroll (ids are issued in increasing order)
SortedIds(S) ==
  IF S = {} THEN <<>>
  ELSE LET m == CHOOSE x \in S : \A y \in S : x.n <= y.n
       IN <<m>> \o SortedIds(S \ {m})

\* QdrantClientWrapper.get_all: the first limit points, [] on any error
get_all(s, env, limit) ==
  IF env.vec_read
  THEN LET ids == SortedIds(DOMAIN s.vec)
       IN SubSeq(ids, 1, Min(limit, Len(ids)))
  ELSE <<>>

\* QdrantClientWrapper.count: 0 on any error
count(s, env) == IF env.vec_read THEN Cardinality(DOMAIN s.vec) ELSE 0

\* _detect_changed_items: the ids whose sha256 is new or differs from the one
\* recorded, and the record after it
_detect_changed_items(s, hashes, env) ==
  LET all_docs == get_all(s, env, 10000)
      ids == Range(all_docs)
  IN [changed |-> { id \in ids :
                     id \notin DOMAIN hashes \/ hashes[id] # s.vec[id].content },
      hashes |-> [id \in DOMAIN hashes \cup ids |->
                   IF id \in ids THEN s.vec[id].content ELSE hashes[id]]]

\* _sync_changed_items: add_node, with the default labels, for each changed
\* document
_sync_changed_items(s, changed, env) ==
  IF changed = {} \/ ~env.graph THEN s
  ELSE LET docs == { id \in Range(get_all(s, env, 10000)) : id \in changed }
       IN [s EXCEPT !.nodes = s.nodes \cup
             { DocNode(id, s.vec[id].content, id.n) : id \in docs }]

\* _find_duplicates: every document whose stripped, lower-cased content an
\* earlier document of the scroll has
_find_duplicates(s, env) ==
  LET all_docs == get_all(s, env, 10000)
  IN { all_docs[j] : j \in
         { j \in 1..Len(all_docs) : \E i \in 1..(j - 1) :
             ExactKey[s.vec[all_docs[i]].content]
               = ExactKey[s.vec[all_docs[j]].content] } }

\* _find_fuzzy_duplicates: among the first 200 documents with more than 20
\* characters, one entry for every pair that is similar enough, with the id
\* of the second document of the pair and, as similar_to, that of the first
_find_fuzzy_duplicates(s, env) ==
  LET all_docs == get_all(s, env, 1000)
      sample == SubSeq(all_docs, 1, Min(200, Len(all_docs)))
      indexed == SelectSeq(sample,
                   LAMBDA id : ContentLen[s.vec[id].content] > FuzzyMinLen)
  IN { [id |-> indexed[p[2]], similar_to |-> indexed[p[1]]] : p \in
         { p \in (1..Len(indexed)) \X (1..Len(indexed)) :
             /\ p[1] < p[2]
             /\ FuzzySimilar[<<s.vec[indexed[p[1]]].content,
                               s.vec[indexed[p[2]]].content>>] } }

\* _find_malformed: the empty and the too short
_find_malformed(s, env) ==
  { id \in Range(get_all(s, env, 10000)) :
      ContentLen[s.vec[id].content] < min_content_length }

\* _extract_and_create_entities: MERGE of a node per entity and of a
\* MENTIONS edge from every node with a mentioning document's id
_extract_and_create_entities(s, env) ==
  IF ~env.graph THEN s
  ELSE LET docs == Range(get_all(s, env, 10000))
           names == UNION { Persons[s.vec[id].content] : id \in docs }
           mentions ==
             { Edge(d, EntityNode("Person", nm), "MENTIONS") :
                 <<d, nm>> \in { p \in s.nodes \X names :
                     /\ p[1].id \in docs
                     /\ p[2] \in Persons[s.vec[p[1].id].content] } }
       IN [s EXCEPT
             !.nodes = s.nodes \cup { EntityNode("Person", nm) : nm \in names },
             !.edges = BagAdd(s.edges, mentions \ DOMAIN s.edges, 1)]

\* the nodes with no incident edge
Orphaned(s) ==
  { n \in s.nodes : \A e \in DOMAIN s.edges : e.src # n /\ e.dst # n }

\* _clean_orphaned_nodes: FalkorDBClient.delete_orphaned_nodes
_clean_orphaned_nodes(s, env) ==
  IF env.graph THEN DetachDelete(s, Orphaned(s)) ELSE s

\* generate_insights: when there is a document, add the insights document
generate_insights(s, env) ==
  IF get_all(s, env, 5000) = <<>> THEN s
  ELSE memory_add(s, _format_insights(s.clock + 1),
                  [NoMeta EXCEPT !.type = "insight"], "list", env).store

max_attempts == 5

RECURSIVE Reconcile(_, _, _)
\* the synchronisation loop of _consolidate_graph, from attempt on
Reconcile(s, env, attempt) ==
  IF attempt >= max_attempts THEN s
  ELSE LET qdrant_count == count(s, env)
           qdrant_docs == Range(get_all(s, env, 10000))
           falkordb_ids == { n.id : n \in s.nodes } \ {NoId}
           missing == qdrant_docs \ falkordb_ids
           orphans == falkordb_ids \ qdrant_docs
           s1 == DetachDelete(s, { n \in s.nodes : n.id \in orphans })
           s2 == [s1 EXCEPT !.nodes = s1.nodes \cup
                    { DocNode(id, s.vec[id].content, id.n) : id \in missing }]
       IN IF missing = {} /\ orphans = {} THEN s
          ELSE IF qdrant_count = Cardinality(s2.nodes) THEN s2
          ELSE Reconcile(s2, env, attempt + 1)

\* position of x in the sequence q
Pos(q, x) == CHOOSE i \in 1..Len(q) : q[i] = x

\* FalkorDBClient.create_entity_links: one SIMILAR_TO edge, by CREATE, from
\* every node with the id listed first to every node with the id listed
\* second, for each pair of ids whose nodes share a keyword.  order is the
\* order in which MATCH (n) lists the ids.  An entity node has no content
\* property, _extract_keywords(None) raises and no link is made.
create_entity_links(s, order) ==
  IF Cardinality(s.nodes) < 2 \/ \E n \in s.nodes : n.label # "Document" THEN s
  ELSE LET pairs == { p \in s.nodes \X s.nodes :
                        /\ p[1] # p[2]
                        /\ Keywords[p[1].content] \cap Keywords[p[2].content] # {}
                        /\ Pos(order, p[1].id) <= Pos(order, p[2].id) }
           links == { Edge(a, b, "SIMILAR_TO") : <<a, b>> \in
                        { q \in s.nodes \X s.nodes : \E p \in pairs :
                            q[1].id = p[1].id /\ q[2].id = p[2].id } }
       IN [s EXCEPT !.edges = BagAdd(s.edges, links, 1)]

\* _consolidate_graph
_consolidate_graph(s, env, order) ==
  IF ~env.graph THEN s
  ELSE create_entity_links(Reconcile(s, env, 0), order)

\* The orders in which the graph may list the ids of its nodes.
Orders(S) ==
  { q \in [1..Cardinality(S) -> S] : \A i, j \in 1..Cardinality(S) :
      i # j => q[i] # q[j] }

\* Phase 2: _sync_changed_items when something changed or force_full
SyncPhase(s, d, force_full, env) ==
  IF d.changed # {} \/ force_full
  THEN _sync_changed_items(s, d.changed, env) ELSE s

\* Phases 3, 5 and 6 on the run r: qdrant.delete of every document found and
\* the count for the report.  One try encloses the phases: a qdrant.delete
\* that raises ends the run there.
DeleteCounted(r, found, n, env) ==
  IF r.failed THEN r
  ELSE IF found # {} /\ ~env.vec_write THEN [r EXCEPT !.failed = TRUE]
  ELSE [r EXCEPT !.store.vec = Drop(@, found),
                 !.removed = Append(@, n)]

\* a phase whose list names every document once
DeletePhase(r, found, env) == DeleteCounted(r, found, Cardinality(found), env)

DuplicatePhase(r, env) == DeletePhase(r, _find_duplicates(r.store, env), env)

\* qdrant.search takes no score_threshold: the phase between the two,
\* _find_semantic_duplicates, catches the TypeError for every document and
\* finds nothing
\* the report counts the entries of the list, len(fuzzy_dups)
FuzzyPhase(r, env) ==
  LET fuzzy_dups == _find_fuzzy_duplicates(r.store, env)
  IN DeleteCounted(r, { dup.id : dup \in fuzzy_dups },
                   Cardinality(fuzzy_dups), env)

MalformedPhase(r, env) == DeletePhase(r, _find_malformed(r.store, env), env)

\* Phases 7 to 12.  _analyze_document_relationships meets the same TypeError
\* as _find_semantic_duplicates and makes no edge.
GraphPhases(s, env, order) ==
  _consolidate_graph(
    generate_insights(
      _clean_orphaned_nodes(_extract_and_create_entities(s, env), env), env),
    env, order)

\* the sum of the numbers of q
RECURSIVE Sum(_)
Sum(q) == IF q = <<>> THEN 0 ELSE Head(q) + Sum(Tail(q))

\* consolidate(force_full): the store and the hash record after it, and the
\* report, with the sync set changed_items that phase 2 computed.
consolidate(s, hashes, force_full, env, order) ==
  LET d == _detect_changed_items(s, hashes, env)
      r0 == [store |-> SyncPhase(s, d, force_full, env), failed |-> FALSE,
             removed |-> <<>>]
      r == MalformedPhase(FuzzyPhase(DuplicatePhase(r0, env), env), env)
  IN IF r.failed
     THEN [store |-> r.store, hashes |-> d.hashes,
           ret |-> [status |-> "error", changed_items |-> d.changed,
                    duplicates_removed |-> Sum(r.removed),
                    malformed_fixed |-> 0, errors |-> <<"delete">>]]
     ELSE [store |-> GraphPhases(r.store, env, order), hashes |-> d.hashes,
           ret |-> [status |-> "success", changed_items |-> d.changed,
                    duplicates_removed |-> r.removed[1] + r.removed[2],
                    malformed_fixed |-> r.removed[3],
                    errors |-> <<>>]]

\* a consolidate run made while the clock is below bound
ConsolidateWithin(bound, force_full, env) ==
  /\ clock < bound
  /\ \E order \in Orders(DOMAIN vec \cup {Uuid(clock + 1)}) :
       LET r == consolidate(Store, document_hashes, force_full, env, order)
       IN /\ SetStore(r.store)
          /\ document_hashes' = r.hashes
          /\ ret' = r.ret
  /\ op' = [name |-> "consolidate", force_full |-> force_full, env |-> env]
  /\ UNCHANGED <<audit, repo, index_run>>

Consolidate(force_full, env) == ConsolidateWithin(MaxRunClock, force_full, env)

(***************************************************************************)
(* CodeIndexerAgent.index, file by file, on one repository.                *)
(***************************************************************************)
\* Latest commit a file may reach.
MaxSha == 2
\* Latest clock value at which an index run may still store its files.
MaxIndexClock == 5

owner == "octo"
repo_name == "demo"

\* The metadata _index_single_file builds, and the one _update_indexed_file
\* builds, which names neither the repository nor the file.
CreateMeta(f, sha) ==
  [type |-> "", repo_owner |-> owner, repo_name |-> repo_name, file_path |-> f,
   last_modified_commit |-> sha]
UpdateMeta(sha) == [NoMeta EXCEPT !.last_modified_commit = sha]

\* memory.add(content, metadata) as index calls it: a raise is caught by the
\* loop over the files and the file counts as neither indexed nor skipped
IndexAdd(s, f, sha, meta, env, action) ==
  LET r == memory_add(s, get_file_content(f, sha), meta, "list", env)
  IN [store |-> r.store, result |-> IF r.ret.raised THEN "error" ELSE action]

\* _check_if_indexed: the results of the file's query that carry the file's
\* owner, repository and path
_check_if_indexed(results, f) ==
  { r \in results.vector_results :
      /\ r.meta.repo_owner = owner
      /\ r.meta.repo_name = repo_name
      /\ r.meta.file_path = f }

\* _get_indexed_commit: last_modified_commit of the result with this id, None
\* (here 0) when the one result of the search is another document
_get_indexed_commit(results, doc_id) ==
  IF \E r \in results.vector_results : r.id = doc_id
  THEN (CHOOSE r \in results.vector_results : r.id = doc_id).meta.last_modified_commit
  ELSE 0

\* _update_indexed_file: qdrant.delete of the old id, then add
_update_indexed_file(s, doc_id, f, sha, env) ==
  IF ~env.vec_write THEN [store |-> s, result |-> "error"]
  ELSE IndexAdd([s EXCEPT !.vec = Drop(s.vec, {doc_id})], f, sha,
                UpdateMeta(sha), env, "updated")

\* _index_single_file once existing_doc_id is known
IndexExisting(s, existing, f, sha, env, vr) ==
  LET q == memory_query(s, IdQuery(existing.id), TRUE, env, vr, {})
  IN IF _get_indexed_commit(q.ret, existing.id) = sha
     THEN [store |-> q.store, result |-> "unchanged"]
     ELSE _update_indexed_file(q.store, existing.id, f, sha, env)

\* _index_single_file: the stores and results it may end with, one for each
\* way the two vector searches may answer
_index_single_file(s, f, sha, force, env) ==
  IF force THEN { IndexAdd(s, f, sha, CreateMeta(f, sha), env, "created") }
  ELSE UNION {
         LET q == memory_query(s, FileQuery(f), TRUE, env, vr, {})
             found == _check_if_indexed(q.ret, f)
         IN IF found = {}
            THEN { IndexAdd(q.store, f, sha, CreateMeta(f, sha), env, "created") }
            ELSE { IndexExisting(q.store, p[1], f, sha, env, p[2]) :
                     p \in found \X VectorResults(q.store, 1, env) }
         : vr \in VectorResults(s, 10, env) }

NoSnapshot == [f \in Files |-> 0]
NoActions == [f \in Files |-> ""]

\* tempfile.gettempdir(): a str
gettempdir == [type |-> "str", value |-> "/tmp"]

\* clone_repo: the directory mkdtemp makes under the temporary directory; its
\* parent is a Path
clone_repo == [exists |-> TRUE, parent |-> [type |-> "Path", value |-> gettempdir.value]]

NoRepoDir == [exists |-> FALSE, parent |-> [type |-> "Path", value |-> ""]]

\* GitHubClient.cleanup: rmtree when the directory exists and its parent
\* equals gettempdir(); a Path and a str are never equal
cleanup(repo_dir) ==
  IF repo_dir.exists /\ repo_dir.parent = gettempdir
  THEN [repo_dir EXCEPT !.exists = FALSE] ELSE repo_dir

\* index(repo_url, force): the clone
StartIndex(force, env) ==
  /\ ~index_run.active
  /\ clock + Len(get_file_list) <= MaxIndexClock
  /\ index_run' = [active |-> TRUE, force |-> force, env |-> env,
                   files |-> get_file_list, snapshot |-> repo,
                   prev |-> index_run.snapshot,
                   prev_actions |-> index_run.actions,
                   before |-> DOMAIN vec, actions |-> NoActions,
                   repo_dir |-> clone_repo]
  /\ op' = [name |-> "clone"]
  /\ ret' = [status |-> ""]
  /\ UNCHANGED <<clock, vec, nodes, edges, cache, document_hashes, audit, repo>>

\* one turn of the loop over the files
IndexFile ==
  /\ index_run.active
  /\ index_run.files # <<>>
  /\ LET f == Head(index_run.files)
     IN \E o \in _index_single_file(Store, f, index_run.snapshot[f],
                                    index_run.force, index_run.env) :
          /\ SetStore(o.store)
          /\ index_run' = [index_run EXCEPT !.files = Tail(@),
                                            !.actions[f] = o.result]
  /\ op' = [name |-> "index_file"]
  /\ ret' = [status |-> ""]
  /\ UNCHANGED <<document_hashes, audit, repo>>

\* the number of files that the run ended with one of these results
Count(results) ==
  Cardinality({ f \in Files : index_run.actions[f] \in results })

\* the report of index
FinishIndex ==
  /\ index_run.active
  /\ index_run.files = <<>>
  /\ index_run' = [index_run EXCEPT !.active = FALSE,
                                    !.repo_dir = cleanup(@)]
  /\ op' = [name |-> "index"]
  /\ ret' = [status |-> "success",
             files_indexed |-> Count({"created", "updated"}),
             files_skipped |-> Count({"unchanged"}),
             total_files |-> Len(get_file_list),
             errors |-> Count({"error"})]
  /\ UNCHANGED <<clock, vec, nodes, edges, cache, document_hashes, audit, repo>>

\* index raises between the clone and the loop over the files
\* (get_repo_info, get_current_commit, get_file_list): the finally runs.
\* Nothing was indexed: the record of the last completed run stands.
AbortIndex ==
  /\ index_run.active
  /\ index_run.files = get_file_list
  /\ index_run.actions = NoActions
  /\ index_run' = [index_run EXCEPT !.active = FALSE, !.files = <<>>,
                                    !.snapshot = index_run.prev,
                                    !.actions = index_run.prev_actions,
                                    !.repo_dir = cleanup(@)]
  /\ op' = [name |-> "index_raised"]
  /\ ret' = [status |-> "raised"]
  /\ UNCHANGED <<clock, vec, nodes, edges, cache, document_hashes, audit, repo>>

\* A commit to the repository changes a file.
Commit(f) ==
  /\ ~index_run.active
  /\ repo[f] < MaxSha
  /\ repo' = [repo EXCEPT ![f] = @ + 1]
  /\ op' = [name |-> "commit"]
  /\ ret' = [status |-> ""]
  /\ UNCHANGED <<clock, vec, nodes, edges, cache, document_hashes, audit,
                 index_run>>

(***************************************************************************)
(* The engine: callers add, query, delete and consolidate, one operation   *)
(* at a time, each finding the backends in some condition.                 *)
(***************************************************************************)
\* Redis with no key: no doc:{id}, no query_cache:{hash}, no
\* doc_entities:{id} and no entity_docs:{entity}
EmptyCache ==
  [doc |-> <<>>, query |-> <<>>, doc_entities |-> <<>>, entity_docs |-> <<>>]

Init ==
  /\ clock = 0
  /\ vec = <<>>
  /\ nodes = {}
  /\ edges = <<>>
  /\ cache = EmptyCache
  /\ document_hashes = <<>>
  /\ audit = <<>>
  /\ repo = [f \in Files |-> 1]
  /\ index_run = [active |-> FALSE, force |-> FALSE, env |-> Healthy,
                  files |-> <<>>, snapshot |-> NoSnapshot, prev |-> NoSnapshot,
                  prev_actions |-> NoActions, before |-> {},
                  actions |-> NoActions, repo_dir |-> NoRepoDir]
  /\ op = [name |-> "init"]
  /\ ret = [status |-> ""]

\* The conditions an operation is run under.  A step that an operation never
\* reaches, or a backend it never calls, is taken as working; a query finds
\* the two search backends reachable and the cache up or down.
AddEnvs == { e \in Envs : ~e.vec_read => (e.vec_write /\ e.graph /\ e.cache) }
QueryEnvs == { e \in Envs : e.vec_read /\ e.vec_write /\ e.graph }
DeleteEnvs == { e \in Envs : e.vec_read /\ e.cache }
ConsolidateEnvs == { e \in Envs : ~e.vec_read => (e.vec_write /\ e.cache) }

ApiContents == {"hello world one", "John Smith wrote this memo."}

Next ==
  \/ \E c \in ApiContents, l \in {"list", "tuple"}, env \in AddEnvs : Add(c, l, env)
  \/ \E t \in QueryTexts, k \in Limits, u \in BOOLEAN, env \in QueryEnvs :
       Query(t, k, u, env)
  \/ \E key \in DOMAIN cache.query : Expire(key)
  \/ \E id \in KnownIds, p \in BOOLEAN, env \in DeleteEnvs : DeleteById(id, p, env)

NextConsolidate ==
  \/ \E c \in UserContents : Add(c, "list", Healthy)
  \/ \E id \in KnownIds, p \in BOOLEAN : DeleteById(id, p, Healthy)
  \/ \E f \in BOOLEAN, env \in ConsolidateEnvs : Consolidate(f, env)

NextIndex ==
  \/ \E force \in BOOLEAN : StartIndex(force, Healthy)
  \/ IndexFile
  \/ FinishIndex
  \/ AbortIndex
  \/ \E f \in Files : Commit(f)
  \/ \E key \in DOMAIN cache.query : Expire(key)

Spec == Init /\ [][Next]_vars

SpecIndex == Init /\ [][NextIndex]_vars

SpecConsolidate == Init /\ [][NextConsolidate]_vars

\* Adds, queries and cache expiry alone, with the cache up or down: the
\* operations that use the cache.
NextCache ==
  \/ \E c \in ApiContents : Add(c, "list", Healthy)
  \/ Add("hello world one", "list", [Healthy EXCEPT !.cache = FALSE])
  \/ \E t \in QueryTexts, k \in Limits, u \in BOOLEAN, env \in QueryEnvs :
       Query(t, k, u, env)
  \/ \E key \in DOMAIN cache.query : Expire(key)

SpecCache == Init /\ [][NextCache]_vars

\* Runs long enough for consolidate to meet the edges of an earlier run, on
\* two contents that share keywords and one that names a person.
MaxLinkClock == 4

NextRelink ==
  \/ \E c \in {"hello world one", "hello world two",
               "John Smith wrote this memo."} : Add(c, "list", Healthy)
  \/ \E id \in KnownIds, p \in BOOLEAN : DeleteById(id, p, Healthy)
  \/ \E f \in BOOLEAN : ConsolidateWithin(MaxLinkClock, f, Healthy)

SpecRelink == Init /\ [][NextRelink]_vars
(***************************************************************************)
(* Properties of add (checked under Spec).                                 *)
(***************************************************************************)
\* The last operation was an add that returned its status object.
Added == op.name = "add" /\ ~ret.raised

\* The add just made stored its Document in the Vector Index.
VectorInserted == Uuid(clock) \in DOMAIN vec

\* The add just made left its node in the Graph.
GraphInserted ==
  \E n \in nodes : n.id = ret.falkordb_id /\ n.created_at = clock

\* C1: for every add, the returned status is full exactly when the Vector
\* insert and the Graph insert both succeeded, partial exactly when one of
\* the two succeeded and the other failed, and failed when neither did.
C1_StatusReflectsInserts ==
  Added =>
    /\ ret.status = "full" <=> (VectorInserted /\ GraphInserted)
    /\ ret.status = "partial" <=> (VectorInserted # GraphInserted)
    /\ (~VectorInserted /\ ~GraphInserted) => ret.status = "failed"

\* C2: a failure of a single backend step of add never aborts add: add
\* returns its status object, with the failure accumulated in its errors.
C2_AddNeverAborts ==
  op.name = "add" =>
    /\ ~ret.raised
    /\ op.env # Healthy => ret.errors # <<>>

(***************************************************************************)
(* Properties of delete (C3 under Spec, C4 under SpecConsolidate).         *)
(***************************************************************************)
\* The ids issued by the Vector Index that a delete reported as success.
DeletedIds ==
  { audit[i].deleted_id : i \in 1..Len(audit) } \cap { Uuid(n) : n \in 1..clock }

\* C3: after delete(id) returns success, id is in neither the Vector Index
\* nor the Graph, and no later query, cached or not, returns a result with
\* that id.
C3_DeletionTotality ==
  /\ (op.name = "delete_by_id" /\ ret.status = "success") =>
       /\ ret.id \notin DOMAIN vec
       /\ NodesWithId(Store, ret.id) = {}
  /\ op.name = "query" =>
       \A r \in ret.vector_results \cup ret.graph_results :
         r.id \notin DeletedIds

\* The Graph has an edge that leaves or enters a node with this id.
HasIncidentEdge(id) ==
  \E e \in DOMAIN edges : e.src.id = id \/ e.dst.id = id

\* C4: delete(id, preserve_connections=true) returns blocked and changes
\* nothing whenever the node id has an incident edge, outgoing or incoming.
C4_BlockedOnIncidentEdge ==
  [][(/\ op'.name = "delete_by_id"
      /\ op'.preserve_connections
      /\ HasIncidentEdge(op'.id))
     => (/\ ret'.status = "blocked"
         /\ UNCHANGED <<vec, nodes, edges, cache, audit>>)]_vars

(***************************************************************************)
(* Properties of consolidate (checked under SpecConsolidate).              *)
(***************************************************************************)
\* The last operation was a consolidate that returned success.
Consolidated == op.name = "consolidate" /\ ret.status = "success"

\* C5: after a consolidate that returns success, the ids of the Document
\* nodes of the Graph are the ids of the Vector Index.
C5_GraphVectorEquality ==
  Consolidated =>
    { n.id : n \in { m \in nodes : m.label = "Document" } } = DOMAIN vec

\* C6: after consolidate, no two documents of the Vector Index have the
\* same content (each content_hash is carried by one Document).
C6_OneDocumentPerHash ==
  Consolidated =>
    \A a, b \in DOMAIN vec : vec[a].content = vec[b].content => a = b

\* C7: of two consecutive consolidate calls on an idle store, the second
\* adds or removes no Vector document, no Graph node and no Graph edge.
C7_SecondRunChangesNothing ==
  [][(/\ op.name = "consolidate" /\ op.env = Healthy
      /\ op'.name = "consolidate" /\ op'.env = Healthy)
     => UNCHANGED <<vec, nodes, edges>>]_vars

\* C8: after consolidate, no two documents of the Vector Index have
\* normalised-text similarity >= 0.75, whatever their length.
C8_NoFuzzyDuplicates ==
  (Consolidated /\ op.env = Healthy) =>
    \A a, b \in DOMAIN vec :
      a # b => ~FuzzySimilar[<<vec[a].content, vec[b].content>>]
(***************************************************************************)
(* Properties of the code indexer (checked under SpecIndex).               *)
(***************************************************************************)
\* The last operation was the return of an index run made with force=false.
Reindexed == op.name = "index" /\ ~index_run.force

\* The documents of the Vector Index stored for a file of the repository.
DocsFor(f) ==
  { id \in DOMAIN vec : vec[id].meta = CreateMeta(f, vec[id].meta.last_modified_commit) }

\* C9: an index run with force=false when no file's last commit has changed
\* since the previous run reports files_indexed = 0 and files_skipped = the
\* number of files, and adds no Document.
C9_UnchangedRepoIsSkipped ==
  (Reindexed /\ index_run.prev = index_run.snapshot) =>
    /\ ret.files_indexed = 0
    /\ ret.files_skipped = Len(get_file_list)
    /\ DOMAIN vec \subseteq index_run.before

\* C10: when an indexed file's last commit differs from the stored one, the
\* run leaves exactly one Document for the file, carrying the new commit,
\* and a further run at the same commit skips the file.
C10_UpdateLeavesOneDocument ==
  Reindexed =>
    \A f \in Files :
      /\ (index_run.actions[f] = "updated"
          /\ index_run.prev[f] # 0
          /\ index_run.prev[f] # index_run.snapshot[f]) =>
           /\ Cardinality(DocsFor(f)) = 1
           /\ \A id \in DocsFor(f) :
                vec[id].meta.last_modified_commit = index_run.snapshot[f]
      /\ (index_run.prev_actions[f] = "updated"
          /\ index_run.prev[f] = index_run.snapshot[f]) =>
           index_run.actions[f] = "unchanged"
(***************************************************************************)
(* Properties of query (checked under Spec).                               *)
(***************************************************************************)
\* The cache key of the query just made.
QueryKey == _get_query_cache_key(TextQuery(op.text))

\* The last operation was a query that used the cache and found it reachable.
CachedQuery == op.name = "query" /\ op.use_cache /\ op.env.cache

\* C11: a query that misses the cache stores its response under the key of
\* its text; until the entry expires no operation changes it; and a query
\* that finds the entry returns it with cache_hit = true and every other
\* field as the miss returned it.
C11_SecondQueryIsCacheHit ==
  /\ [](CachedQuery =>
          /\ QueryKey \in DOMAIN cache.query
          /\ ret = [cache.query[QueryKey] EXCEPT !.cache_hit = ret.cache_hit])
  /\ [][/\ \A k \in DOMAIN cache.query :
             k \in DOMAIN cache.query' => cache.query'[k] = cache.query[k]
        /\ \A k \in DOMAIN cache.query \ DOMAIN cache.query' :
             op'.name = "expire"
        /\ (op'.name = "query" /\ op'.use_cache /\ op'.env.cache) =>
             ret'.cache_hit =
               (_get_query_cache_key(TextQuery(op'.text)) \in DOMAIN cache.query)
       ]_vars

\* A query was answered from the cache with a document in its results.
C11_Witness ==
  CachedQuery /\ ret.cache_hit /\ ret.vector_results # {}

(***************************************************************************)
(* Further properties of add (checked under Spec).                         *)
(***************************************************************************)
\* C12: the id of the Graph node that an add stores and the id in the cache
\* key that it writes are the id the Vector Index issued and add returns as
\* qdrant_id, also when the Vector insert of that add failed.
C12_OneIdAcrossStores ==
  Added =>
    /\ \A n \in nodes : n.created_at = clock => n.id = ret.qdrant_id
    /\ ret.falkordb_id \in {NoId, ret.qdrant_id}
    /\ op.env.cache => ret.qdrant_id \in DOMAIN cache.doc

\* C13: as long as no delete and no consolidation has run, every id that is
\* visible as a Document node of the Graph is present in the Vector Index.
C13_GraphIdsAreVectorIds ==
  audit = <<>> =>
    \A n \in nodes : n.label = "Document" => n.id \in DOMAIN vec

(***************************************************************************)
(* Failures of consolidate (checked under SpecConsolidate).                *)
(***************************************************************************)
\* C14: when a phase of consolidate fails, the failure is in the report's
\* errors and the later phases of the run are still executed: the run goes
\* on to generate_insights, which stamps and adds the insights document of
\* a store that holds documents.
C14_LaterPhasesStillRun ==
  [][(op'.name = "consolidate" /\ ret'.errors # <<>>) => clock' = clock + 1]_vars

\* C15: consolidate returns a report whatever fails, and every error that
\* occurred is in the report's errors: a run that could not read the Vector
\* Index, or could not reach the Graph, reports an error.
C15_EveryErrorIsReported ==
  (op.name = "consolidate" /\ (~op.env.vec_read \/ ~op.env.graph)) =>
    ret.errors # <<>>

\* ---------------------------------------------------------------------------
\* Embedding providers (src/core/embedding_provider.py) and the two paths by
\* which MemorySystem obtains the embedding it hands to the Vector Index.
\* An embedding is represented by its length, the only thing the dimension
\* invariant speaks of.
\* ---------------------------------------------------------------------------
MaxApiLen == 4
DefaultDimension == 1536
MockDimension == 1536
FallbackDimension == 1536
NoSize == 0
Raised == -1

Providers == {"minimax", "openai"}
ConfiguredSizes == {NoSize, 2, 3, DefaultDimension, 3072}
ApiLens == (0 .. MaxApiLen) \cup {DefaultDimension}
\* what one call of embed meets: no API key, a 200 response carrying a vector
\* of some length, another status code, an exception inside the request, or
\* httpx missing so that the import at the top of embed raises
ApiOutcomes ==
  [kind : {"no_key", "status", "exception", "import_error"}, len : {0}]
    \cup [kind : {"ok"}, len : ApiLens]

\* vector_size or DEFAULT_DIMENSIONS.get(model, 1536), for the default models
vector_size(configured) ==
  IF configured # NoSize THEN configured ELSE DefaultDimension

_mock_embedding(provider, size) ==
  IF provider = "openai" THEN MockDimension ELSE size

embed(provider, size, out) ==
  IF out.kind = "import_error" THEN Raised
  ELSE IF out.kind = "no_key" THEN _mock_embedding(provider, size)
  ELSE IF out.kind = "ok"
    THEN IF out.len # size
           THEN IF out.len > size THEN size ELSE out.len + (size - out.len)
           ELSE out.len
  ELSE _mock_embedding(provider, size)

_generate_embedding(provider, size, out) ==
  LET e == embed(provider, size, out)
  IN  IF e = Raised THEN FallbackDimension ELSE e

_generate_embedding_with_context(provider, size, out) ==
  LET e == embed(provider, size, out)
  IN  IF e = Raised THEN _generate_embedding(provider, size, out) ELSE e

\* the embedding that add (with context) or query (plain) passes on
PassedEmbedding(caller, provider, size, out) ==
  IF caller = "add" THEN _generate_embedding_with_context(provider, size, out)
  ELSE _generate_embedding(provider, size, out)

Embed(caller, provider, configured, out) ==
  /\ op' = [name |-> "embed", caller |-> caller, provider |-> provider,
            configured |-> configured, outcome |-> out]
  /\ ret' = [returned |-> embed(provider, vector_size(configured), out),
             passed |-> PassedEmbedding(caller, provider, vector_size(configured), out)]
  /\ UNCHANGED <<clock, vec, nodes, edges, cache, document_hashes, audit, repo, index_run>>

NextEmbed ==
  \E caller \in {"add", "query"}, provider \in Providers,
     configured \in ConfiguredSizes, out \in ApiOutcomes :
       Embed(caller, provider, configured, out)

SpecEmbed == Init /\ [][NextEmbed]_vars

\* C16: every embedding a provider returns, and every embedding add or query
\* passes to the Vector Index, has length exactly the configured dimension D,
\* whatever D is and whatever the API call met.
C16_EmbeddingHasConfiguredDimension ==
  op.name = "embed" =>
    /\ ret.returned \in {Raised, vector_size(op.configured)}
    /\ ret.passed = vector_size(op.configured)

delete_all(s, log, confirm, env) ==
  IF ~confirm
  THEN [store |-> s, audit |-> log, ret |-> [status |-> "aborted"]]
  ELSE LET count_before == count(s, env)
       IN [store |-> s, audit |-> log,
           ret |-> [status |-> "error", qdrant_deleted |-> 0,
                    falkordb_deleted |-> 0, errors |-> <<"delete_all">>]]

DeleteAll(confirm, env) ==
  /\ LET r == delete_all(Store, audit, confirm, env)
     IN /\ SetStore(r.store)
        /\ audit' = r.audit
        /\ ret' = r.ret
  /\ op' = [name |-> "delete_all", confirm |-> confirm, env |-> env]
  /\ UNCHANGED <<document_hashes, repo, index_run>>

NextDelete ==
  \/ \E c \in ApiContents : Add(c, "list", Healthy)
  \/ \E t \in QueryTexts, k \in Limits : Query(t, k, TRUE, Healthy)
  \/ \E confirm \in BOOLEAN : DeleteAll(confirm, Healthy)

SpecDelete == Init /\ [][NextDelete]_vars

\* C18: a confirmed delete_all on healthy backends returns success and leaves
\* the Vector Index, the Graph (nodes of every label) and the cache empty.
C18_DeleteAllEmptiesEveryStore ==
  (op.name = "delete_all" /\ op.confirm) =>
    /\ ret.status = "success"
    /\ vec = <<>>
    /\ nodes = {}
    /\ cache = EmptyCache

\* The engine holds exactly the two documents of two adds of one content (one
\* that is not malformed), made from empty, and nothing was deleted.
SameContentAddedTwice ==
  /\ clock = 2
  /\ audit = <<>>
  /\ DOMAIN vec = {Uuid(1), Uuid(2)}
  /\ vec[Uuid(1)].content = vec[Uuid(2)].content
  /\ ContentLen[vec[Uuid(1)].content] >= min_content_length

\* C19: from an empty engine, two adds of the same content and then a
\* consolidate give a report with duplicates_removed >= 1 and leave count() = 1.
C19_DuplicateScenario ==
  [][(SameContentAddedTwice /\ op'.name = "consolidate" /\ op'.env = Healthy) =>
       /\ ret'.duplicates_removed >= 1
       /\ Cardinality(DOMAIN vec') = 1]_vars

\* C20: node creation is an upsert keyed on id: whatever add_node calls were
\* made, the Graph holds at most one node for each id.
C20_OneNodePerId ==
  \A n, m \in nodes : (n.id # NoId /\ n.id = m.id) => n = m

\* C21: creating a relationship that exists already leaves one such edge: no
\* SIMILAR_TO edge between two nodes is ever there more than once, however
\* often consolidate and its create_entity_links step have run.
C21_OneSimilarEdgePerPair ==
  \A e \in DOMAIN edges : e.type = "SIMILAR_TO" => edges[e] <= 1

MaxTextLen == 4
\* a run that appends chunks for ever is followed up to this many of them
MaxChunks == 6

\* texts of a letter, the period and the newline (which is white space too)
ChunkTexts == UNION { [1..n -> {"a", ".", "\n"}] : n \in 0..MaxTextLen }
ChunkConfigs == [chunk_size : {2, 3}, chunk_overlap : {0, 1, 2, 3}]

\* an index of a slice or of rfind, as Python reads it in a text of length n
SliceIndex(i, n) ==
  IF i < 0 THEN (IF i + n < 0 THEN 0 ELSE i + n) ELSE IF i > n THEN n ELSE i

\* text.rfind(ch, start, end): the last position, from 0, or -1
rfind(text, ch, start, end) ==
  LET found == { i \in SliceIndex(start, Len(text)) .. (SliceIndex(end, Len(text)) - 1) :
                   text[i + 1] = ch }
  IN IF found = {} THEN -1 ELSE CHOOSE i \in found : \A j \in found : j <= i

\* text[start:end]
Slice(text, start, end) ==
  SubSeq(text, SliceIndex(start, Len(text)) + 1, SliceIndex(end, Len(text)))

\* a text that is only a little too long is returned as it stands
short_text_stripped(text) == IF strip(text) # <<>> THEN <<strip(text)>> ELSE <<>>

\* the return of chunk for a text of at most chunk_size characters
short_text(text) == IF strip(text) # <<>> THEN <<text>> ELSE <<>>

\* the body of the while loop: the next start and the chunks after it
chunk_iteration(text, cfg, start, chunks) ==
  LET last_period == rfind(text, ".", start, start + cfg.chunk_size)
      last_newline == rfind(text, "\n", start, start + cfg.chunk_size)
      break_point == IF last_period > last_newline THEN last_period ELSE last_newline
      end == IF start + cfg.chunk_size < Len(text) /\ break_point > start
             THEN break_point + 1 ELSE start + cfg.chunk_size
      chunk == strip(Slice(text, start, end))
  IN [start |-> end - cfg.chunk_overlap,
      chunks |-> IF chunk # <<>> THEN Append(chunks, chunk) ELSE chunks]

\* chunk(text) is called: a short text returns at once, a longer one enters
\* the loop with start = 0
StartChunk(text, cfg) ==
  /\ op.name # "chunk"
  /\ op' = [name |-> "chunk", text |-> text, chunk_size |-> cfg.chunk_size,
            chunk_overlap |-> cfg.chunk_overlap]
  /\ ret' = IF Len(text) <= cfg.chunk_size
            THEN [done |-> TRUE, start |-> 0, chunks |-> short_text(text)]
            ELSE [done |-> FALSE, start |-> 0, chunks |-> <<>>]
  /\ UNCHANGED <<clock, vec, nodes, edges, cache, document_hashes, audit, repo, index_run>>

\* one iteration, and the return when start has passed the end of the text
ChunkStep ==
  /\ op.name = "chunk"
  /\ ~ret.done
  /\ Len(ret.chunks) < MaxChunks
  /\ LET it == chunk_iteration(op.text, op, ret.start, ret.chunks)
     IN ret' = [done |-> ~(it.start < Len(op.text)), start |-> it.start,
                chunks |-> it.chunks]
  /\ UNCHANGED <<op, clock, vec, nodes, edges, cache, document_hashes, audit, repo, index_run>>

NextChunk ==
  \/ \E text \in ChunkTexts, cfg \in ChunkConfigs : StartChunk(text, cfg)
  \/ ChunkStep

SpecChunk == Init /\ [][NextChunk]_vars

\* C23: with chunk_size > chunk_overlap the window start strictly advances on
\* every iteration of chunk's loop, so that chunk terminates.
C23_StartAdvances ==
  [][(op.name = "chunk" /\ ~ret.done /\ op.chunk_size > op.chunk_overlap) =>
       ret'.start > ret.start]_vars

\* C24: a non-blank text of at most chunk_size characters comes back as the
\* one chunk, equal to the text; and no chunk that chunk collects is empty.
C24_SmallTextPassesThrough ==
  op.name = "chunk" =>
    /\ \A i \in 1..Len(ret.chunks) : ret.chunks[i] # <<>>
    /\ (ret.done /\ Len(op.text) <= op.chunk_size /\ strip(op.text) # <<>>) =>
         ret.chunks = <<op.text>>

\* A short text with white space around it was returned.
C24_Witness ==
  /\ op.name = "chunk"
  /\ ret.done
  /\ Len(op.text) <= op.chunk_size
  /\ strip(op.text) # <<>>
  /\ strip(op.text) # op.text

\* ---------------------------------------------------------------------------
\* MemorySystem._enrich_metadata.  A metadata is a function from its keys to
\* values; "user" is a value the caller supplied.  What the extractors derive
\* from the content is an input: "" is the empty list of keywords, the empty
\* dict of entities, the language None.
\* ---------------------------------------------------------------------------
MetadataKeys ==
  {"created_at", "updated_at", "keywords", "entities", "language",
   "source_type", "content_hash", "word_count", "source"}

UserMetadata == UNION { [K -> {"user"}] : K \in SUBSET MetadataKeys }

Derived ==
  [timestamp : {"now"}, keywords : {"", "auto"}, entities : {"", "auto"},
   language : {"", "auto"}, source_type : {"text"}, content_hash : {"sha"},
   word_count : {"count"}]

_enrich_metadata(metadata, d) ==
  LET m1 == Put(Put(metadata, "created_at", d.timestamp), "updated_at", d.timestamp)
      m2 == IF d.keywords # "" THEN Put(m1, "keywords", d.keywords) ELSE m1
      m3 == IF d.entities # "" THEN Put(m2, "entities", d.entities) ELSE m2
      m4 == IF d.language # "" THEN Put(m3, "language", d.language) ELSE m3
      m5 == IF "source_type" \notin DOMAIN m4
            THEN Put(m4, "source_type", d.source_type) ELSE m4
  IN Put(Put(Put(m5, "content_hash", d.content_hash),
             "word_count", d.word_count), "char_count", d.word_count)

Enrich(metadata, d) ==
  /\ op.name = "init"
  /\ op' = [name |-> "enrich", metadata |-> metadata, derived |-> d]
  /\ ret' = _enrich_metadata(metadata, d)
  /\ UNCHANGED <<clock, vec, nodes, edges, cache, document_hashes, audit, repo, index_run>>

NextEnrich == \E metadata \in UserMetadata, d \in Derived : Enrich(metadata, d)

SpecEnrich == Init /\ [][NextEnrich]_vars

\* C25: for every key of the metadata the caller supplied, the enriched
\* metadata holds the caller's value.
C25_UserValueWins ==
  op.name = "enrich" => \A k \in DOMAIN op.metadata : ret[k] = op.metadata[k]

\* C26: when index returns or raises after the clone, the temporary directory
\* of the clone has been removed.
C26_CloneIsRemoved ==
  op.name \in {"index", "index_raised"} => ~index_run.repo_dir.exists

\* The store with nothing cached, and the conditions env with the cache up.
WithEmptyCache(s) == [s EXCEPT !.cache = EmptyCache]
CacheUp(env) == [env EXCEPT !.cache = TRUE]

\* C27: an add or a query whose every cache call fails does not raise, and
\* returns what the same call returns on a working cache that holds nothing:
\* the same ids, status and errors for add, the same vector and graph results
\* for query; the Vector Index and the Graph are left the same too.
C27_CacheFailureChangesNothing ==
  [][/\ (op'.name = "add" /\ ~op'.env.cache) =>
          LET r == memory_add(WithEmptyCache(Store), op'.content, NoMeta,
                              op'.labels, CacheUp(op'.env))
          IN /\ ~ret'.raised
             /\ ret' = r.ret
             /\ vec' = r.store.vec
             /\ nodes' = r.store.nodes
     /\ (op'.name = "query" /\ ~op'.env.cache) =>
          /\ ret'.vector_results \in VectorResults(Store, op'.limit, CacheUp(op'.env))
          /\ ret'.graph_results \in GraphResults(Store, TextQuery(op'.text),
                                                 op'.limit, CacheUp(op'.env))
          /\ ret' = memory_query(WithEmptyCache(Store), TextQuery(op'.text),
                                 op'.use_cache, CacheUp(op'.env),
                                 ret'.vector_results, ret'.graph_results).ret
          /\ vec' = vec
          /\ nodes' = nodes]_vars

\* a query through the cache, the cache down, that finds a document added
\* while the cache was down
C27_Witness ==
  /\ op.name = "query"
  /\ ~op.env.cache
  /\ op.use_cache
  /\ \E r \in ret.vector_results : r.id \notin DOMAIN cache.doc
  /\ ret.graph_results # {}

(***************************************************************************)
(* MemorySystem.sync_graph                                                 *)
(***************************************************************************)
\* a sync that counts the documents without a node and inserts nothing
sync_graph_counts_only(s, env) ==
  LET docs == IF env.vec_read THEN DOMAIN s.vec ELSE {}
      missing == { id \in docs : ~env.graph \/ NodesWithId(s, id) = {} }
  IN [store |-> s,
      ret |-> [synced |-> Cardinality(missing), total |-> Cardinality(docs),
               errors |-> <<>>]]

\* sync_graph: qdrant.get_all gives [] when the Vector Index cannot be read;
\* get_node gives None when no node has the id and when the query fails;
\* add_node is called with no labels, its result is not looked at and the
\* document is counted as synced.
sync_graph(s, env) ==
  LET docs == IF env.vec_read THEN DOMAIN s.vec ELSE {}
      missing == { id \in docs : ~env.graph \/ NodesWithId(s, id) = {} }
      added == IF env.graph
               THEN { DocNode(id, s.vec[id].content, id.n) : id \in missing }
               ELSE {}
  IN [store |-> [s EXCEPT !.nodes = s.nodes \cup added],
      ret |-> [synced |-> Cardinality(missing), total |-> Cardinality(docs),
               errors |-> <<>>]]

Sync(env) ==
  /\ LET r == sync_graph(Store, env)
     IN /\ SetStore(r.store)
        /\ ret' = r.ret
  /\ op' = [name |-> "sync", env |-> env]
  /\ UNCHANGED <<document_hashes, audit, repo, index_run>>

SyncEnvs == { e \in Envs : e.vec_write /\ e.cache }

NextSync ==
  \/ \E c \in ApiContents, l \in {"list", "tuple"}, env \in AddEnvs : Add(c, l, env)
  \/ \E id \in KnownIds, p \in BOOLEAN : DeleteById(id, p, Healthy)
  \/ \E env \in SyncEnvs : Sync(env)

SpecSync == Init /\ [][NextSync]_vars

\* what a sync step changes: no Vector document, no edge and no Graph node
\* that was there; every node it adds carries the id of a Vector document
\* that had no node
SyncOnlyAdds ==
  /\ vec' = vec
  /\ edges' = edges
  /\ nodes \subseteq nodes'
  /\ \A n \in nodes' \ nodes :
       n.id \in DOMAIN vec /\ NodesWithId(Store, n.id) = {}

\* after a sync step every Vector id has a Graph node, and those that had
\* none have exactly one
SyncCovers ==
  \A id \in DOMAIN vec :
    /\ { n \in nodes' : n.id = id } # {}
    /\ NodesWithId(Store, id) = {} =>
         Cardinality({ n \in nodes' : n.id = id }) = 1

BeforeCleanup(s, hashes, force_full, env) ==
  LET d == _detect_changed_items(s, hashes, env)
      r0 == [store |-> SyncPhase(s, d, force_full, env), failed |-> FALSE,
             removed |-> <<>>]
      r == MalformedPhase(FuzzyPhase(DuplicatePhase(r0, env), env), env)
  IN _extract_and_create_entities(r.store, env)

\* C30: in a successful consolidation run with every store reachable, the
\* orphan cleanup deletes only nodes that have no incident edge and whose id
\* no Vector document has, and no node whose id a Vector document has after
\* the run is missing after the run.
C30_CleanupSparesVectorCounterparts ==
  [][(op'.name = "consolidate" /\ op'.env = Healthy
        /\ ret'.status = "success") =>
       LET before == BeforeCleanup(Store, document_hashes, op'.force_full,
                                   op'.env)
           after == _clean_orphaned_nodes(before, op'.env)
       IN /\ \A n \in before.nodes \ after.nodes :
               n \in Orphaned(before) /\ n.id \notin DOMAIN before.vec
          /\ \A n \in nodes : n.id \in DOMAIN vec' => n \in nodes']_vars

(***************************************************************************)
(* LibrarianAgent.add: one memory.add per chunk of the source.             *)
(***************************************************************************)
\* Latest clock value at which a chunk may still be added.
MaxIngestClock == 4

\* The sources handed to the librarian and what processor.chunk makes of
\* their text: one source of two chunks, one of a single chunk.
Sources == {"notes.md", "memo.txt"}
SourceChunks(source) ==
  IF source = "notes.md" THEN <<"hello world one", "hello world two">>
  ELSE <<"John Smith wrote this memo.">>

\* chunk_metadata: the metadata of chunk i of n of the source
ChunkMeta(source, i, n) ==
  [type |-> "", repo_owner |-> "", repo_name |-> "", file_path |-> "",
   last_modified_commit |-> 0,
   source |-> source, chunk_index |-> i, total_chunks |-> n]

\* the librarian has a loop over the chunks in progress
Ingesting == op.name = "librarian_add" /\ ~ret.done

\* steps 1 to 5 of add: the chunks are made, none is added yet
StartIngest(source) ==
  /\ ~Ingesting
  /\ clock < MaxIngestClock
  /\ op' = [name |-> "librarian_add", source |-> source,
            chunks |-> SourceChunks(source)]
  /\ ret' = [done |-> FALSE, raised |-> FALSE, i |-> 0, status |-> ""]
  /\ UNCHANGED <<clock, vec, nodes, edges, cache, document_hashes, audit,
                 repo, index_run>>

\* one turn of the loop of step 6: memory.add of chunk i.  An add that
\* raises ends the librarian's add there; one that returns, with or without
\* errors, is followed by the next chunk.
IngestChunk(env) ==
  /\ Ingesting
  /\ LET n == Len(op.chunks)
         r == memory_add(Store, op.chunks[ret.i + 1],
                         ChunkMeta(op.source, ret.i, n), "list", env)
     IN /\ SetStore(r.store)
        /\ ret' = IF r.ret.raised
                  THEN [ret EXCEPT !.done = TRUE, !.raised = TRUE]
                  ELSE [ret EXCEPT !.i = ret.i + 1,
                                   !.done = (ret.i + 1 = n),
                                   !.status = IF ret.i + 1 = n THEN "success"
                                              ELSE ""]
  /\ UNCHANGED <<op, document_hashes, audit, repo, index_run>>

NextIngest ==
  \/ \E source \in Sources : StartIngest(source)
  \/ \E env \in AddEnvs : IngestChunk(env)

SpecIngest == Init /\ [][NextIngest]_vars

\* the stored chunk j of n of the source
StoredChunks(source, j, n) ==
  { id \in DOMAIN vec :
      /\ vec[id].meta.source = source
      /\ vec[id].meta.chunk_index = j
      /\ vec[id].meta.total_chunks = n }

\* C31: whenever the librarian is not in the middle of an add, for every
\* stored chunk of a source with total_chunks = n, the chunks of that source
\* with every index 0..n-1 are stored.
C31_ChunksAreContiguous ==
  ~Ingesting =>
    \A id \in DOMAIN vec :
      \A j \in 0..(vec[id].meta.total_chunks - 1) :
        StoredChunks(vec[id].meta.source, j, vec[id].meta.total_chunks) # {}

(***************************************************************************)
(* MemorySystem._cache_entities, run by two adds at once.  Every await of  *)
(* a Redis call is a point where the other add may run.                    *)
(***************************************************************************)
\* The two adds: add p stores the document Uuid(p).
Tasks == {1, 2}
\* The lists _extract_entities may give for contents that share "john".
EntityLists == { <<"john">>, <<"john", "smith">>, <<"smith", "john">> }

\* json.dumps of a list, and json.loads, which takes a str: handed a list it
\* raises TypeError.
json_dumps(list) == [type |-> "str", value |-> list]
json_loads_raises(x) == x.type # "str"
json_loads(x) == [type |-> "list", value |-> x.value]

\* RedisClientWrapper.get: None for a missing key, else json.loads of the
\* stored string
NoValue == [type |-> "None", value |-> <<>>]
redis_get(keys, key) ==
  IF key \in DOMAIN keys THEN json_loads(keys[key]) ELSE NoValue

\* the truth value Python gives x
truthy(x) == x.type # "None" /\ x.value # <<>>

\* two adds reach _cache_entities with the entities of their contents
StartCacheEntities(entities) ==
  /\ op.name = "init"
  /\ op' = [name |-> "cache_entities", entities |-> entities]
  /\ ret' = [pc |-> [p \in Tasks |-> "doc_entities"],
             k |-> [p \in Tasks |-> 1],
             doc_ids |-> [p \in Tasks |-> <<>>]]
  /\ UNCHANGED <<clock, vec, nodes, edges, cache, document_hashes, audit,
                 repo, index_run>>

\* redis.set(f"doc_entities:{doc_id}", json.dumps(entities))
SetDocEntities(p) ==
  /\ op.name = "cache_entities"
  /\ ret.pc[p] = "doc_entities"
  /\ cache' = [cache EXCEPT !.doc_entities =
                 Put(@, Uuid(p), json_dumps(op.entities[p]))]
  /\ ret' = [ret EXCEPT !.pc[p] = "get"]
  /\ UNCHANGED <<clock, vec, nodes, edges, document_hashes, audit, repo,
                 index_run, op>>

\* existing = redis.get(f"entity_docs:{entity}");
\* doc_ids = json.loads(existing) if existing else []; the append and the
\* cut to the last 100.  A json.loads that raises ends _cache_entities in its
\* except.
GetEntityDocs(p) ==
  /\ op.name = "cache_entities"
  /\ ret.pc[p] = "get"
  /\ LET existing == redis_get(cache.entity_docs, op.entities[p][ret.k[p]])
         loaded == IF truthy(existing) THEN json_loads(existing).value ELSE <<>>
         doc_ids == IF \E i \in 1..Len(loaded) : loaded[i] = Uuid(p)
                    THEN loaded ELSE Append(loaded, Uuid(p))
         last100 == SubSeq(doc_ids, Max(1, Len(doc_ids) - 99), Len(doc_ids))
     IN ret' = IF truthy(existing) /\ json_loads_raises(existing)
               THEN [ret EXCEPT !.pc[p] = "done"]
               ELSE [ret EXCEPT !.pc[p] = "set", !.doc_ids[p] = last100]
  /\ UNCHANGED <<clock, vec, nodes, edges, cache, document_hashes, audit,
                 repo, index_run, op>>

\* redis.set(f"entity_docs:{entity}", json.dumps(doc_ids)), and on to the
\* next entity
SetEntityDocs(p) ==
  /\ op.name = "cache_entities"
  /\ ret.pc[p] = "set"
  /\ cache' = [cache EXCEPT !.entity_docs =
                 Put(@, op.entities[p][ret.k[p]], json_dumps(ret.doc_ids[p]))]
  /\ ret' = [ret EXCEPT !.k[p] = ret.k[p] + 1,
                        !.pc[p] = IF ret.k[p] = Len(op.entities[p])
                                  THEN "done" ELSE "get"]
  /\ UNCHANGED <<clock, vec, nodes, edges, document_hashes, audit, repo,
                 index_run, op>>

NextEntities ==
  \/ \E entities \in [Tasks -> EntityLists] : StartCacheEntities(entities)
  \/ \E p \in Tasks : SetDocEntities(p)
  \/ \E p \in Tasks : GetEntityDocs(p)
  \/ \E p \in Tasks : SetEntityDocs(p)

SpecEntities == Init /\ [][NextEntities]_vars

\* C32: when both adds have completed, the reverse list of every entity that
\* both contents have holds both document ids.
C32_NoLostEntityUpdate ==
  (op.name = "cache_entities" /\ \A p \in Tasks : ret.pc[p] = "done") =>
    \A e \in {"john", "smith"} :
      (\A p \in Tasks : e \in Range(op.entities[p])) =>
        /\ e \in DOMAIN cache.entity_docs
        /\ \A p \in Tasks : Uuid(p) \in Range(cache.entity_docs[e].value)

(***************************************************************************)
(* The vector an embedding call yields.  A vector is known by what         *)
(* determines it: the text the API embedded, the text whose MD5 seeded     *)
(* random, or the draws an unseeded random gave.                           *)
(***************************************************************************)
\* How many different outcomes the unseeded random.random() may give.
MaxDraws == 2
Draws == 1..MaxDraws

EmbedTexts == {"hello", "hello world one"}
EmbedOutcomes == {"ok", "no_key", "status", "exception", "import_error"}

RaisedVector == [kind |-> "raised", of |-> "", context |-> FALSE, draw |-> 0]
\* the text add embeds: the content joined with its keywords, entities and
\* language; query embeds the query text alone
EnhancedText(content) == [of |-> content, context |-> TRUE]
PlainText(text) == [of |-> text, context |-> FALSE]

\* _mock_embedding: random.seed(md5(text) % 2^32), then size draws, normalised
mock_vector(t) == [kind |-> "md5", of |-> t.of, context |-> t.context, draw |-> 0]

\* embed: the API's vector on a 200 response; the mock without a key, on
\* another status and on an exception in the request; import httpx, outside
\* the try, may raise
embed_vector(t, out) ==
  IF out = "import_error" THEN RaisedVector
  ELSE IF out = "ok"
    THEN [kind |-> "api", of |-> t.of, context |-> t.context, draw |-> 0]
  ELSE mock_vector(t)

\* _generate_embedding: [random.random() for _ in range(1536)] when embed
\* raises; d is what the draws give
_generate_embedding_vector(text, out, d) ==
  LET e == embed_vector(PlainText(text), out)
  IN IF e = RaisedVector
     THEN [kind |-> "random", of |-> "", context |-> FALSE, draw |-> d]
     ELSE e

\* _generate_embedding_with_context: embed of the enhanced text, and
\* _generate_embedding of the content when that raises
_generate_embedding_with_context_vector(content, out, d) ==
  LET e == embed_vector(EnhancedText(content), out)
  IN IF e = RaisedVector THEN _generate_embedding_vector(content, out, d)
     ELSE e

NoCall == [caller |-> "", text |-> "", outcome |-> ""]

\* add or query obtains the embedding of a text; the call before it is
\* remembered with the vector it obtained
EmbedText(caller, text, out, d) ==
  /\ op.name \in {"init", "embed_text"}
  /\ op' = [name |-> "embed_text", caller |-> caller, text |-> text,
            outcome |-> out,
            before |-> IF op.name = "embed_text"
                       THEN [caller |-> op.caller, text |-> op.text,
                             outcome |-> op.outcome]
                       ELSE NoCall]
  /\ ret' = [vector |-> IF caller = "add"
                        THEN _generate_embedding_with_context_vector(text, out, d)
                        ELSE _generate_embedding_vector(text, out, d),
             before |-> IF op.name = "embed_text" THEN ret.vector
                        ELSE RaisedVector]
  /\ UNCHANGED <<clock, vec, nodes, edges, cache, document_hashes, audit,
                 repo, index_run>>

NextFallback ==
  \E caller \in {"add", "query"}, text \in EmbedTexts, out \in EmbedOutcomes,
     d \in Draws : EmbedText(caller, text, out, d)

SpecFallback == Init /\ [][NextFallback]_vars

\* C33: two embedding calls of the same operation on the same text that both
\* end in a fallback (neither got the API's vector) obtain the same vector.
C33_FallbackIsDeterministic ==
  (/\ op.name = "embed_text"
   /\ op.before.caller = op.caller
   /\ op.before.text = op.text
   /\ op.outcome # "ok"
   /\ op.before.outcome # "ok") =>
    ret.vector = ret.before

\* C34: the response of query(text, limit) holds at most limit vector
\* results and at most limit graph results, served from the cache or not.
C34_AtMostLimitResults ==
  op.name = "query" =>
    /\ Cardinality(ret.vector_results) <= op.limit
    /\ Cardinality(ret.graph_results) <= op.limit

(***************************************************************************)
(* The duplicate purges of consolidate on three documents.                 *)
(***************************************************************************)
\* Latest clock value at which a document may still be added before a run.
MaxPurgeClock == 3

NextPurge ==
  \/ \E c \in PurgeContents : AddWithin(MaxPurgeClock, c, "list", Healthy)
  \/ \E f \in BOOLEAN : ConsolidateWithin(MaxPurgeClock + 1, f, Healthy)

SpecPurge == Init /\ [][NextPurge]_vars

\* C35: in a successful consolidation run, duplicates_removed (with
\* malformed_fixed for the malformed phase) is the number of documents the
\* purges removed from the Vector Index.
C35_DuplicatesRemovedCountsDocuments ==
  [][(op'.name = "consolidate" /\ ret'.status = "success") =>
       ret'.duplicates_removed + ret'.malformed_fixed
         = Cardinality(DOMAIN vec \ DOMAIN vec')]_vars

\* r is a copy of d for the purges: the same stripped lower-cased content,
\* or similar enough for the fuzzy purge
CopyOf(r, d) ==
  \/ ExactKey[r] = ExactKey[d]
  \/ FuzzySimilar[<<r, d>>]
  \/ FuzzySimilar[<<d, r>>]

\* C36: after a successful consolidation run, for every document that the
\* duplicate purges removed, a document it is a copy of is left in the
\* Vector Index.
C36_OneCopyRemains ==
  [][(op'.name = "consolidate" /\ ret'.status = "success") =>
       \A d \in DOMAIN vec \ DOMAIN vec' :
         \E r \in DOMAIN vec \cap DOMAIN vec' :
           CopyOf(vec[r].content, vec[d].content)]_vars

(***************************************************************************)
(* An add running concurrently with the synchronisation loop of            *)
(* _consolidate_graph: each await of the two coroutines is one step.       *)
(***************************************************************************)
\* Latest clock value at which the concurrent add may still draw its id.
MaxRaceClock == 3

\* contents without entity labels: add gives each of them a Graph node
RaceContents == {"tiny note", "hello world one", "hello world two"}

Racing == op.name = "race"

\* add(content) and consolidate() are both started; consolidate has reached
\* the loop of _consolidate_graph.  content is in no stored document.
StartRace(content) ==
  /\ IF Racing THEN ret.pc_add = "done" /\ ret.pc_con = "done" ELSE TRUE
  /\ clock < MaxRaceClock
  /\ \A id \in DOMAIN vec : vec[id].content # content
  /\ op' = [name |-> "race", content |-> content]
  /\ ret' = [pc_add |-> "vec", pc_con |-> "count", attempt |-> 0,
             doc_id |-> NoId, now |-> 0, qdrant_count |-> 0,
             qdrant_ids |-> {}, missing |-> {}, orphans |-> {}]
  /\ UNCHANGED <<clock, vec, nodes, edges, cache, document_hashes, audit,
                 repo, index_run>>

\* add, step 3: qdrant.add
RaceAddVec ==
  /\ Racing /\ ret.pc_add = "vec"
  /\ clock' = clock + 1
  /\ vec' = Put(vec, Uuid(clock + 1), [content |-> op.content, meta |-> NoMeta])
  /\ ret' = [ret EXCEPT !.pc_add = "graph", !.doc_id = Uuid(clock + 1),
                        !.now = clock + 1]
  /\ UNCHANGED <<nodes, edges, cache, document_hashes, audit, repo, index_run,
                 op>>

\* add, step 4: falkordb.add_node under the id of the Vector Index
RaceAddNode ==
  /\ Racing /\ ret.pc_add = "graph"
  /\ SetStore(add_node(Store, ret.doc_id, op.content, ret.now, Healthy,
                       ~HasEntityLabels[op.content]))
  /\ ret' = [ret EXCEPT !.pc_add = "cache"]
  /\ UNCHANGED <<document_hashes, audit, repo, index_run, op>>

\* add, step 6: redis.set(f"doc:{doc_id}", content)
RaceAddCache ==
  /\ Racing /\ ret.pc_add = "cache"
  /\ cache' = [cache EXCEPT !.doc = Put(cache.doc, ret.doc_id, op.content)]
  /\ ret' = [ret EXCEPT !.pc_add = "done"]
  /\ UNCHANGED <<clock, vec, nodes, edges, document_hashes, audit, repo,
                 index_run, op>>

\* the loop: qdrant_count = await qdrant.count(), or the loop is exhausted
RaceCount ==
  /\ Racing /\ ret.pc_con = "count"
  /\ ret' = IF ret.attempt >= max_attempts
            THEN [ret EXCEPT !.pc_con = "links"]
            ELSE [ret EXCEPT !.pc_con = "vec_snapshot",
                             !.qdrant_count = count(Store, Healthy)]
  /\ UNCHANGED <<clock, vec, nodes, edges, cache, document_hashes, audit,
                 repo, index_run, op>>

\* the loop: qdrant_docs = await qdrant.get_all(limit=10000)
RaceVecSnapshot ==
  /\ Racing /\ ret.pc_con = "vec_snapshot"
  /\ ret' = [ret EXCEPT !.pc_con = "graph_snapshot",
                        !.qdrant_ids = Range(get_all(Store, Healthy, 10000))]
  /\ UNCHANGED <<clock, vec, nodes, edges, cache, document_hashes, audit,
                 repo, index_run, op>>

\* the loop: MATCH (n) RETURN n.id, then missing and orphans; nothing of
\* either ends the loop
RaceGraphSnapshot ==
  /\ Racing /\ ret.pc_con = "graph_snapshot"
  /\ LET falkordb_ids == { n.id : n \in nodes } \ {NoId}
         missing == ret.qdrant_ids \ falkordb_ids
         orphans == falkordb_ids \ ret.qdrant_ids
     IN ret' = [ret EXCEPT !.pc_con = IF missing = {} /\ orphans = {}
                                      THEN "links" ELSE "repair",
                           !.missing = missing, !.orphans = orphans]
  /\ UNCHANGED <<clock, vec, nodes, edges, cache, document_hashes, audit,
                 repo, index_run, op>>

\* the loop: DETACH DELETE of every orphan, add_node of every missing
\* document of the snapshot
RaceRepair ==
  /\ Racing /\ ret.pc_con = "repair"
  /\ LET s1 == DetachDelete(Store, { n \in nodes : n.id \in ret.orphans })
     IN SetStore([s1 EXCEPT !.nodes = s1.nodes \cup
                    { DocNode(id, vec[id].content, id.n) : id \in ret.missing }])
  /\ ret' = [ret EXCEPT !.pc_con = "recount"]
  /\ UNCHANGED <<document_hashes, audit, repo, index_run, op>>

\* the loop: the Graph is counted again; qdrant_count == falkordb_count ends
\* the loop, anything else starts the next attempt
RaceRecount ==
  /\ Racing /\ ret.pc_con = "recount"
  /\ ret' = IF ret.qdrant_count = Cardinality(nodes)
            THEN [ret EXCEPT !.pc_con = "links"]
            ELSE [ret EXCEPT !.pc_con = "count", !.attempt = ret.attempt + 1]
  /\ UNCHANGED <<clock, vec, nodes, edges, cache, document_hashes, audit,
                 repo, index_run, op>>

\* after the loop: create_entity_links, and consolidate completes
RaceLinks ==
  /\ Racing /\ ret.pc_con = "links"
  /\ \E order \in Orders({ n.id : n \in nodes }) :
       SetStore(create_entity_links(Store, order))
  /\ ret' = [ret EXCEPT !.pc_con = "done"]
  /\ UNCHANGED <<document_hashes, audit, repo, index_run, op>>

NextRace ==
  \/ \E c \in RaceContents : StartRace(c)
  \/ RaceAddVec
  \/ RaceAddNode
  \/ RaceAddCache
  \/ RaceCount
  \/ RaceVecSnapshot
  \/ RaceGraphSnapshot
  \/ RaceRepair
  \/ RaceRecount
  \/ RaceLinks

SpecRace == Init /\ [][NextRace]_vars

\* C37: when an add of a non-duplicate document and a concurrent
\* consolidate() have both completed, the document is in the Vector Index
\* and the Graph has a node with its id.
C37_ConcurrentAddKeepsItsNode ==
  (Racing /\ ret.pc_add = "done" /\ ret.pc_con = "done") =>
    /\ ret.doc_id \in DOMAIN vec
    /\ \E n \in nodes : n.id = ret.doc_id

(***************************************************************************)
(* ulmemory schedule: tasks.json and the crontab of the user.              *)
(***************************************************************************)
\* Number of schedule commands in a behaviour.
MaxCommands == 3

\* The characters of the strings the scheduler and the heartbeat reader
\* format their lines from, of the options given on the command line and of
\* the lines written into heartbeat.md.
Text(t) ==
  CASE
     t = "ulmemory-schedule" ->
       <<"u", "l", "m", "e", "m", "o", "r", "y", "-", "s", "c", "h", "e",
       "d", "u", "l", "e">>
  [] t = "ULMEMORY_TASK_ID" ->
       <<"U", "L", "M", "E", "M", "O", "R", "Y", "_", "T", "A", "S", "K",
       "_", "I", "D">>
  [] t = "# ULMEMORY_TASK_ID=" ->
       <<"#", " ", "U", "L", "M", "E", "M", "O", "R", "Y", "_", "T", "A",
       "S", "K", "_", "I", "D", "=">>
  [] t = "/home/user/.ulmemory/venv/bin/python" ->
       <<"/", "h", "o", "m", "e", "/", "u", "s", "e", "r", "/", ".", "u",
       "l", "m", "e", "m", "o", "r", "y", "/", "v", "e", "n", "v", "/", "b",
       "i", "n", "/", "p", "y", "t", "h", "o", "n">>
  [] t = " -m ultramemory_cli.main agent run " ->
       <<" ", "-", "m", " ", "u", "l", "t", "r", "a", "m", "e", "m", "o",
       "r", "y", "_", "c", "l", "i", ".", "m", "a", "i", "n", " ", "a", "g",
       "e", "n", "t", " ", "r", "u", "n", " ">>
  [] t = " \"" ->
       <<" ", "\"">>
  [] t = "\" >> /tmp/ulmemory-task-" ->
       <<"\"", " ", ">", ">", " ", "/", "t", "m", "p", "/", "u", "l", "m",
       "e", "m", "o", "r", "y", "-", "t", "a", "s", "k", "-">>
  [] t = ".log 2>&1" ->
       <<".", "l", "o", "g", " ", "2", ">", "&", "1">>
  [] t = " " ->
       <<" ">>
  [] t = "0 3 * * *" ->
       <<"0", " ", "3", " ", "*", " ", "*", " ", "*">>
  [] t = "*/5 * * * *" ->
       <<"*", "/", "5", " ", "*", " ", "*", " ", "*", " ", "*">>
  [] t = "consolidator" ->
       <<"c", "o", "n", "s", "o", "l", "i", "d", "a", "t", "o", "r">>
  [] t = "docs" ->
       <<"d", "o", "c", "s">>
  [] t = "-task-" ->
       <<"-", "t", "a", "s", "k", "-">>
  [] t = "nightly" ->
       <<"n", "i", "g", "h", "t", "l", "y">>
  [] t = "/tmp/ulmemory-task-" ->
       <<"/", "t", "m", "p", "/", "u", "l", "m", "e", "m", "o", "r", "y",
       "-", "t", "a", "s", "k", "-">>
  [] t = "- [ ] " ->
       <<"-", " ", "[", " ", "]", " ">>
  [] t = "- [ ]  " ->
       <<"-", " ", "[", " ", "]", " ", " ">>
  [] t = "- [ ]" ->
       <<"-", " ", "[", " ", "]">>
  [] t = "- [x]" ->
       <<"-", " ", "[", "x", "]">>
  [] t = "Buy milk" ->
       <<"B", "u", "y", " ", "m", "i", "l", "k">>
  [] t = "Buy milk and eggs" ->
       <<"B", "u", "y", " ", "m", "i", "l", "k", " ", "a", "n", "d", " ",
       "e", "g", "g", "s">>
  [] t = "Call bob" ->
       <<"C", "a", "l", "l", " ", "b", "o", "b">>
  [] t = "home" ->
       <<"h", "o", "m", "e">>
  [] t = "# Heartbeat - Tareas Pendientes" ->
       <<"#", " ", "H", "e", "a", "r", "t", "b", "e", "a", "t", " ", "-",
       " ", "T", "a", "r", "e", "a", "s", " ", "P", "e", "n", "d", "i", "e",
       "n", "t", "e", "s">>
  [] t = "-[ ] Call bob" ->
       <<"-", "[", " ", "]", " ", "C", "a", "l", "l", " ", "b", "o", "b">>
  [] t = "- [ ] Check #urgent status" ->
       <<"-", " ", "[", " ", "]", " ", "C", "h", "e", "c", "k", " ", "#",
       "u", "r", "g", "e", "n", "t", " ", "s", "t", "a", "t", "u", "s">>
  [] t = "- [x] Pay rent" ->
       <<"-", " ", "[", "x", "]", " ", "P", "a", "y", " ", "r", "e", "n",
       "t">>
  [] t = "#" ->
       <<"#">>
  [] t = "" -> <<>>

DigitChars == <<"0", "1", "2", "3", "4", "5", "6", "7", "8", "9">>

RECURSIVE str(_)
\* str(n) of a task id
str(n) ==
  IF n < 10 THEN <<DigitChars[n + 1]>>
  ELSE str(n \div 10) \o <<DigitChars[(n % 10) + 1]>>

\* an option that was not given (None)
NotGiven == "--"

ScheduleAgents == {"consolidator"}
ScheduleCrons == {"0 3 * * *", "*/5 * * * *"}
ScheduleArgs == {"", "docs"}
ScheduleNames == {"nightly"}
TaskIds == 1..MaxCommands

\* Path.home() / ".ulmemory" / "venv" / "bin" / "python"
venv_python == Text("/home/user/.ulmemory/venv/bin/python")

\* f"# ULMEMORY_TASK_ID={task_id}"
comment_line(schedule) == Text("# ULMEMORY_TASK_ID=") \o str(schedule.id)

\* f"{cron} {cmd}" of _sync_to_crontab
cron_line(schedule) ==
  Text(schedule.cron) \o Text(" ") \o venv_python
    \o Text(" -m ultramemory_cli.main agent run ") \o Text(schedule.agent)
    \o Text(" \"") \o Text(schedule.args)
    \o Text("\" >> /tmp/ulmemory-task-") \o str(schedule.id)
    \o Text(".log 2>&1")

\* the lines _sync_to_crontab keeps of the current crontab
kept_line(l) ==
  /\ ~Contains(l, Text("ulmemory-schedule"))
  /\ ~Contains(l, Text("ULMEMORY_TASK_ID"))

RECURSIVE new_entries(_)
\* the two lines appended for every enabled schedule, in the order of the file
new_entries(schedules) ==
  IF schedules = <<>> THEN <<>>
  ELSE (IF Head(schedules).enabled
        THEN <<comment_line(Head(schedules)), cron_line(Head(schedules))>>
        ELSE <<>>) \o new_entries(Tail(schedules))

\* The text of a crontab is held as the lines text.split("\n") gives: the
\* empty text is the one empty line.  "\n".join(lines) with a newline added
\* when it is not empty and does not end with one, split again.
installed(lines) ==
  IF lines = << <<>> >> THEN lines
  ELSE IF Len(lines) >= 2 /\ lines[Len(lines)] = <<>> THEN lines
  ELSE Append(lines, <<>>)

\* _sync_to_crontab: the crontab after it.  crontab -l of a user without a
\* crontab fails and the current text is taken to be empty.
_sync_to_crontab(schedules, crontab) ==
  installed(SelectSeq(crontab, kept_line) \o new_entries(schedules))

\* _get_next_id
_get_next_id(schedules) ==
  IF schedules = <<>> THEN 1
  ELSE 1 + CHOOSE m \in { schedules[i].id : i \in DOMAIN schedules } :
             \A i \in DOMAIN schedules : schedules[i].id <= m

\* tasks.json and the crontab before the first schedule command
NoSchedules == [tasks |-> <<>>, crontab |-> << <<>> >>, commands |-> 0]

Scheduled == IF op.name = "schedule" THEN ret ELSE NoSchedules

\* the task with this id is in the file
Found(schedules, task_id) ==
  \E i \in DOMAIN schedules : schedules[i].id = task_id

\* _save_schedules(schedules); _sync_to_crontab()
SaveAndSync(st, schedules) ==
  [st EXCEPT !.tasks = schedules,
             !.crontab = _sync_to_crontab(schedules, st.crontab)]

\* schedule add AGENT --cron --args --name --enable/--disable.  The fields
\* created, last_run and next_run, which no command modelled here reads,
\* are left out.
add_command(st, agent, cron, args, name, enable) ==
  LET task_id == _get_next_id(st.tasks)
      task == [id |-> task_id,
               name |-> IF name # NotGiven /\ name # "" THEN Text(name)
                        ELSE Text(agent) \o Text("-task-") \o str(task_id),
               agent |-> agent, cron |-> cron, args |-> args,
               enabled |-> enable]
  IN SaveAndSync(st, Append(st.tasks, task))

\* schedule remove TASK_ID: confirmed is --force or the answer to the prompt
remove_command(st, task_id, confirmed) ==
  IF ~Found(st.tasks, task_id) \/ ~confirmed THEN st
  ELSE SaveAndSync(st, SelectSeq(st.tasks, LAMBDA t : t.id # task_id))

\* schedule enable TASK_ID / schedule disable TASK_ID: the first task of
\* that id gets enabled = value
set_enabled(st, task_id, value) ==
  IF ~Found(st.tasks, task_id) THEN st
  ELSE LET i == CHOOSE i \in DOMAIN st.tasks :
                  /\ st.tasks[i].id = task_id
                  /\ \A j \in 1..(i - 1) : st.tasks[j].id # task_id
       IN SaveAndSync(st, [st.tasks EXCEPT ![i].enabled = value])

enable_command(st, task_id) == set_enabled(st, task_id, TRUE)

disable_command(st, task_id) == set_enabled(st, task_id, FALSE)

\* schedule edit TASK_ID --cron --args --name
edit_command(st, task_id, cron, args, name) ==
  IF ~Found(st.tasks, task_id) THEN st
  ELSE LET i == CHOOSE i \in DOMAIN st.tasks :
                  /\ st.tasks[i].id = task_id
                  /\ \A j \in 1..(i - 1) : st.tasks[j].id # task_id
           t == st.tasks[i]
           edited == [t EXCEPT
                        !.cron = IF cron # NotGiven /\ cron # "" THEN cron
                                 ELSE t.cron,
                        !.args = IF args # NotGiven THEN args ELSE t.args,
                        !.name = IF name # NotGiven /\ name # "" THEN Text(name)
                                 ELSE t.name]
       IN SaveAndSync(st, [st.tasks EXCEPT ![i] = edited])

\* one schedule command is run
Schedule(command, task_id, after) ==
  /\ Scheduled.commands < MaxCommands
  /\ op' = [name |-> "schedule", command |-> command, task_id |-> task_id]
  /\ ret' = [after EXCEPT !.commands = Scheduled.commands + 1]
  /\ UNCHANGED <<clock, vec, nodes, edges, cache, document_hashes, audit,
                 repo, index_run>>

ScheduleAdd ==
  \E agent \in ScheduleAgents, cron \in ScheduleCrons, args \in ScheduleArgs,
     enable \in BOOLEAN :
    Schedule("add", _get_next_id(Scheduled.tasks),
             add_command(Scheduled, agent, cron, args, NotGiven, enable))

ScheduleRemove ==
  \E task_id \in TaskIds, confirmed \in BOOLEAN :
    Schedule("remove", task_id, remove_command(Scheduled, task_id, confirmed))

ScheduleEnable ==
  \E task_id \in TaskIds :
    Schedule("enable", task_id, enable_command(Scheduled, task_id))

ScheduleDisable ==
  \E task_id \in TaskIds :
    Schedule("disable", task_id, disable_command(Scheduled, task_id))

ScheduleEdit ==
  \E task_id \in TaskIds, cron \in {NotGiven, "*/5 * * * *"},
     args \in {NotGiven, ""}, name \in {NotGiven} \cup ScheduleNames :
    Schedule("edit", task_id,
             edit_command(Scheduled, task_id, cron, args, name))

NextSchedule ==
  \/ ScheduleAdd
  \/ ScheduleRemove
  \/ ScheduleEnable
  \/ ScheduleDisable
  \/ ScheduleEdit

SpecSchedule == Init /\ [][NextSchedule]_vars

\* the crontab line l runs a task of this id: it writes to the task's log
CommandOf(l, task_id) ==
  Contains(l, Text("/tmp/ulmemory-task-") \o str(task_id) \o Text(".log 2>&1"))

\* C38: after any sequence of schedule add, remove, enable, disable and edit
\* commands the crontab holds exactly one command line, the one of its cron
\* expression, agent and arguments, for each enabled task of tasks.json and
\* none for a disabled or removed task.
C38_CrontabMatchesTasks ==
  op.name = "schedule" =>
    \A task_id \in TaskIds :
      LET commands == { i \in DOMAIN ret.crontab :
                          CommandOf(ret.crontab[i], task_id) }
          enabled == { j \in DOMAIN ret.tasks :
                         ret.tasks[j].id = task_id /\ ret.tasks[j].enabled }
      IN IF enabled = {} THEN commands = {}
         ELSE /\ Cardinality(commands) = 1
              /\ \A i \in commands, j \in enabled :
                   ret.crontab[i] = cron_line(ret.tasks[j])

(***************************************************************************)
(* heartbeat.md: HeartbeatReader and ProactiveAgent.check_and_execute.     *)
(***************************************************************************)
\* Number of lines written into heartbeat.md in a behaviour.
MaxWritten == 3

\* the first position from i on that holds no white space, Len(s) + 1 when
\* there is none: where a greedy \s* that starts at i ends
SkipSpaces(s, i) ==
  CHOOSE j \in i..(Len(s) + 1) :
    /\ \A k \in i..(j - 1) : IsSpace(s[k])
    /\ (j = Len(s) + 1 \/ ~IsSpace(s[j]))

\* the last position of the run of \w that starts at i, i - 1 when there is
\* none
WordEnd(s, i) ==
  CHOOSE j \in (i - 1)..Len(s) :
    /\ \A k \in i..j : IsWord(s[k])
    /\ (j = Len(s) \/ ~IsWord(s[j + 1]))

NoTaskMatch == [matched |-> FALSE, status |-> "", title |-> <<>>]

\* re.match(r'^-\s*\[([ x])\]\s*(.+)$', line): group 1 and group 2.  When
\* only white space follows the bracket, \s* gives its last character back
\* to (.+).
task_match(line) ==
  IF line = <<>> THEN NoTaskMatch
  ELSE IF line[1] # "-" THEN NoTaskMatch
  ELSE LET b == SkipSpaces(line, 2)
           rest == SubSeq(line, b + 3, Len(line))
           t == SkipSpaces(rest, 1)
       IN IF /\ b + 2 <= Len(line)
             /\ line[b] = "["
             /\ line[b + 1] \in {" ", "x"}
             /\ line[b + 2] = "]"
             /\ rest # <<>>
          THEN [matched |-> TRUE, status |-> line[b + 1],
                title |-> IF t > Len(rest) THEN <<rest[Len(rest)]>>
                          ELSE SubSeq(rest, t, Len(rest))]
          ELSE NoTaskMatch

RECURSIVE find_tags(_, _)
\* re.findall(r'#(\w+)', s), from position i on
find_tags(s, i) ==
  IF i > Len(s) THEN <<>>
  ELSE IF s[i] = "#" /\ WordEnd(s, i + 1) > i
       THEN <<SubSeq(s, i + 1, WordEnd(s, i + 1))>>
              \o find_tags(s, WordEnd(s, i + 1) + 1)
       ELSE find_tags(s, i + 1)

RECURSIVE remove_tags(_, _)
\* re.sub(r'#\w+', '', s), from position i on
remove_tags(s, i) ==
  IF i > Len(s) THEN <<>>
  ELSE IF s[i] = "#" /\ WordEnd(s, i + 1) > i
       THEN remove_tags(s, WordEnd(s, i + 1) + 1)
       ELSE <<s[i]>> \o remove_tags(s, i + 1)

RECURSIVE _parse_heartbeat(_)
\* _parse_heartbeat on content.split("\n"): the tasks, in the order of
\* their lines
_parse_heartbeat(lines) ==
  IF lines = <<>> THEN <<>>
  ELSE LET task_m == task_match(Head(lines))
           raw_title == strip(task_m.title)
       IN (IF task_m.matched
           THEN <<[title |-> strip(remove_tags(raw_title, 1)),
                   completed |-> task_m.status = "x",
                   tags |-> find_tags(raw_title, 1),
                   priority |-> "normal"]>>
           ELSE <<>>) \o _parse_heartbeat(Tail(lines))

\* heartbeat.md: whether it exists and the lines text.split("\n") gives
NoHeartbeat ==
  [exists |-> FALSE, lines |-> <<>>, written |-> 0, results |-> <<>>]

Heartbeat == IF op.name = "heartbeat" THEN ret ELSE NoHeartbeat

\* HeartbeatReader.read: the tasks
read(file) == IF file.exists THEN _parse_heartbeat(file.lines) ELSE <<>>

\* get_pending_tasks()
get_pending_tasks(file) == SelectSeq(read(file), LAMBDA t : ~t.completed)

RECURSIVE str_replace(_, _, _)
\* s.replace(old, new)
str_replace(s, old, new) ==
  IF Len(s) < Len(old) THEN s
  ELSE IF SubSeq(s, 1, Len(old)) = old
       THEN new \o str_replace(SubSeq(s, Len(old) + 1, Len(s)), old, new)
       ELSE <<Head(s)>> \o str_replace(Tail(s), old, new)

\* mark_completed(task_title)
mark_completed(file, task_title) ==
  IF ~file.exists THEN file
  ELSE [file EXCEPT !.lines =
          [i \in DOMAIN file.lines |->
             IF \/ Contains(file.lines[i], Text("- [ ] ") \o task_title)
                \/ Contains(file.lines[i], Text("- [ ]  ") \o task_title)
             THEN str_replace(file.lines[i], Text("- [ ]"), Text("- [x]"))
             ELSE file.lines[i]]]

\* text + line + "\n", split into lines
append_line(lines, line) ==
  SubSeq(lines, 1, Len(lines) - 1) \o <<lines[Len(lines)] \o line, <<>>>>

RECURSIVE tags_str(_)
\* " ".join(f"#{tag}" for tag in tags)
tags_str(tags) ==
  IF tags = <<>> THEN <<>>
  ELSE IF Len(tags) = 1 THEN Text("#") \o Head(tags)
  ELSE Text("#") \o Head(tags) \o Text(" ") \o tags_str(Tail(tags))

\* add_task(title, tags): the header is written when the file is missing
add_task(file, title, tags) ==
  LET lines == IF file.exists THEN file.lines
               ELSE <<Text("# Heartbeat - Tareas Pendientes"), <<>>, <<>>>>
  IN [file EXCEPT !.exists = TRUE,
                  !.lines = append_line(lines, Text("- [ ] ") \o title
                                                 \o Text(" ") \o tags_str(tags))]

\* the user adds a line at the end of heartbeat.md with an editor
edit_file(file, line) ==
  [file EXCEPT !.exists = TRUE,
               !.lines = append_line(IF file.exists THEN file.lines
                                     ELSE << <<>> >>, line)]

RECURSIVE execute_tasks(_, _)
\* the loop of check_and_execute over tasks_to_execute.  The tasks written
\* here carry no tag that names a task type: _execute_task takes its last
\* branch, which returns without raising and without touching the memory
\* system, and the task is marked.
execute_tasks(file, tasks) ==
  IF tasks = <<>> THEN [file |-> file, results |-> <<>>]
  ELSE LET after == execute_tasks(mark_completed(file, Head(tasks).title),
                                  Tail(tasks))
       IN [file |-> after.file,
           results |-> <<[task |-> Head(tasks).title, status |-> "success"]>>
                         \o after.results]

\* check_and_execute(max_tasks)
check_and_execute(file, max_tasks) ==
  LET pending == get_pending_tasks(file)
  IN execute_tasks(file, SubSeq(pending, 1, Min(max_tasks, Len(pending))))

HeartbeatTitles == {"Buy milk", "Buy milk and eggs"}
HeartbeatTags == {<<>>, <<Text("home")>>}
\* lines written by hand: no space after the dash, a tag in the middle of
\* the title, a task that is done
HandLines == {"-[ ] Call bob", "- [ ] Check #urgent status", "- [x] Pay rent"}

\* one call on the heartbeat, or one edit of the file
HeartbeatStep(call, title, file, results) ==
  /\ op' = [name |-> "heartbeat", call |-> call, title |-> title,
            before |-> read(Heartbeat)]
  /\ ret' = [file EXCEPT !.results = results]
  /\ UNCHANGED <<clock, vec, nodes, edges, cache, document_hashes, audit,
                 repo, index_run>>

AddTask ==
  /\ Heartbeat.written < MaxWritten
  /\ \E title \in HeartbeatTitles, tags \in HeartbeatTags :
       HeartbeatStep("add_task", Text(title),
                     [add_task(Heartbeat, Text(title), tags)
                        EXCEPT !.written = Heartbeat.written + 1], <<>>)

EditFile ==
  /\ Heartbeat.written < MaxWritten
  /\ \E line \in HandLines :
       HeartbeatStep("edit", <<>>,
                     [edit_file(Heartbeat, Text(line))
                        EXCEPT !.written = Heartbeat.written + 1], <<>>)

MarkCompleted ==
  \E title \in { Text(t) : t \in HeartbeatTitles }
                 \cup { read(Heartbeat)[i].title : i \in DOMAIN read(Heartbeat) } :
    HeartbeatStep("mark_completed", title, mark_completed(Heartbeat, title), <<>>)

CheckAndExecute ==
  LET r == check_and_execute(Heartbeat, 3)
  IN HeartbeatStep("check_and_execute", <<>>, r.file, r.results)

NextHeartbeat ==
  \/ AddTask
  \/ EditFile
  \/ MarkCompleted
  \/ CheckAndExecute

SpecHeartbeat == Init /\ [][NextHeartbeat]_vars

\* C39: after check_and_execute, no task that it executed successfully is
\* still returned by get_pending_tasks, whatever the form of the task's line.
C39_ExecutedTasksAreMarked ==
  (op.name = "heartbeat" /\ op.call = "check_and_execute") =>
    \A i \in DOMAIN ret.results :
      ret.results[i].status = "success" =>
        \A j \in DOMAIN get_pending_tasks(ret) :
          get_pending_tasks(ret)[j].title # ret.results[i].task

\* C40: mark_completed(title) leaves the status of every task whose title is
\* not exactly title as it was.
C40_OnlyThatTitleIsMarked ==
  (op.name = "heartbeat" /\ op.call = "mark_completed") =>
    /\ Len(read(ret)) = Len(op.before)
    /\ \A i \in DOMAIN op.before :
         op.before[i].title # op.title =>
           read(ret)[i].completed = op.before[i].completed

=============================================================================
